---- MODULE Spec2Model ----
(***************************************************************************)
(* with-simple-caching: the synchronous wrapper (withSimpleCache), the     *)
(* asynchronous wrapper (withSimpleCacheAsync) with its in-memory request  *)
(* deduplication, and the serde defaults they use.                         *)
(*                                                                         *)
(* JavaScript values are modelled as strings: the outputs of the wrapped   *)
(* logic, null, undefined, promises, and the serialized forms of these.    *)
(* Every run of the logic that returns a number returns a fresh one, so    *)
(* the run a value comes from can be told from the value.                  *)
(*                                                                         *)
(* A decorated call of the synchronous wrapper is one step.  A decorated   *)
(* call of the asynchronous wrapper runs on the JavaScript job queue: code *)
(* runs until its next await, continuations and promise reactions are      *)
(* microtasks run in FIFO order, and timers and I/O complete only when the *)
(* microtask queue is empty.  The chain .finally(...).then(...) behind a   *)
(* run is two microtasks: the invalidation, and the settling of the        *)
(* promise the caller holds.                                               *)
(*                                                                         *)
(* pipes records the runs of the cached logic (get, logic, set, re-get),   *)
(* calls the decorated calls, store the primary cache, dedup the           *)
(* deduplication cache, queue the microtasks; cfg and load are fixed by    *)
(* Init; evicted records what another party did to the primary cache.      *)
(* Entries of the deduplication cache expire after 15 minutes: runs are    *)
(* taken to settle within that time.                                       *)
(*                                                                         *)
(* withExtendableCache adds invalidate and update to the synchronous       *)
(* wrapper: ops records these operations, and other is a second cache the  *)
(* caller holds and can name in them.                                      *)
(*                                                                         *)
(* Several asynchronous wrappers can be constructed over one logic and one *)
(* cache; dedup then holds the entries of all their deduplication caches,  *)
(* an entry of a cache other than the first being named with its cache.    *)
(***************************************************************************)
EXTENDS Naturals, Sequences, FiniteSets, TLC

VARIABLES cfg, load, store, dedup, pipes, calls, queue, evicted, other, ops

vars == <<cfg, load, store, dedup, pipes, calls, queue, evicted, other, ops>>

(***************************************************************************)
(* Bounds of the model.                                                    *)
(***************************************************************************)
\* calls of the synchronous wrapper
MaxCalls == 3

\* calls of the asynchronous wrapper over two inputs
MaxAsyncCalls == 2

\* calls of the asynchronous wrapper with one input
MaxBurst == 4

\* microtasks of the caller's code in the job queue
MaxDefers == 2

\* entries set to undefined by another party
MaxEvicts == 1

\* invalidate and update operations of withExtendableCache
MaxOps == 1

\* wrappers constructed over one logic and one cache
MaxInstances == 2

(***************************************************************************)
(* Values.                                                                 *)
(***************************************************************************)
Undef == "undefined"

Null == "null"

NA == "n/a"

Err == "Error: surprise!"

\* what cache.get or cache.set throws (or rejects with) when the backend fails
IOErr == "Error: EIO"

Balloon == "balloon"

\* the literal of update({ ..., toValue: 821 })
Literal == "821"

NaN == "NaN"

\* BadRequestError, by its message
BadRequestErrorExtract == "BadRequestError: could not extract cache from input with cache resolution method"

BadRequestErrorFind(trigger) == "BadRequestError: could not find the cache to " \o trigger \o " in"

\* the results of Math.random(): the n-th run of the cached logic gets the n-th
Random(n) == "0." \o ToString(n)

\* a number stored before the wrapper was constructed
Stale == Random(0)

Numbers == {Random(n) : n \in 0..(MaxCalls + MaxAsyncCalls + MaxBurst)}

\* the promise an async logic returns to the synchronous wrapper: the n-th run
\* gets the n-th promise object
PromiseResolved(n) == "Promise#" \o ToString(n) \o " <" \o Random(n) \o ">"

PromiseRejected(n) == "Promise#" \o ToString(n) \o " <rejected> " \o Err

Promises ==
  {PromiseResolved(n) : n \in 1..(MaxCalls + 1)} \cup {PromiseRejected(n) : n \in 1..(MaxCalls + 1)}

RejectedPromises == {PromiseRejected(n) : n \in 1..(MaxCalls + 1)}

\* JSON.parse('{}')
EmptyObject == "{}"

\* what the wrapped logic can return: a number, null, undefined
Outputs == Numbers \cup {Null, Undef}

\* the numbers that d updates can make of a number in the cache
RECURSIVE ScaledBy(_)
ScaledBy(d) ==
  IF d = 0 THEN Numbers \cup {Literal}
  ELSE ScaledBy(d - 1) \cup {"2*" \o v : v \in ScaledBy(d - 1)}

\* toValue: ({ fromCachedOutput }) => (fromCachedOutput ?? 0) * 2
Times2(v) ==
  IF v \in {Undef, Null, "0"} THEN "0"
  ELSE IF v \in ScaledBy(MaxOps) THEN "2*" \o v
  ELSE NaN

\* what update can put in the cache besides the outputs of the logic
Updated == ScaledBy(MaxOps + 1) \cup {"0"}

\* what the wrapped logic can do: return a fresh number, null or undefined,
\* or throw / reject
Outcomes == {"Math.random()", Null, Undef, Err}

\* what the logic given to the synchronous wrapper can do besides: be an
\* async function, which returns a promise
SyncOutcomes == Outcomes \cup {"async Math.random()", "async throw"}

\* what the n-th run gets from the wrapped logic
logic(n, outcome) ==
  IF outcome = "Math.random()" THEN Random(n)
  ELSE IF outcome = "async Math.random()" THEN PromiseResolved(n)
  ELSE IF outcome = "async throw" THEN PromiseRejected(n)
  ELSE outcome

Names == {"casey", "katya"}

\* the second argument of a call: a context, or a context with the cache to
\* use, { cache }
Ctx == "ctx"

CtxWithCache == "ctx { cache }"

Contexts == {Ctx, CtxWithCache}

\* a second argument that holds another cache than the first
CtxWithOther == "ctx { cache: other }"

\* the expiration option: absent, null, or a duration
Expirations == {Undef, Null, "{ seconds: 3 }"}

\* a cache.set that was given no options
NoOptions == "no options"

\* the argument lists the decorated function is called with: (input, context)
Args == [input : Names, context : Contexts \cup {CtxWithOther}]

(***************************************************************************)
(* Serde defaults and the custom serde of the tests.                       *)
(***************************************************************************)
JSONstringify(v) ==
  IF v = Undef THEN Undef
  ELSE IF v = NaN THEN "json:" \o Null
  ELSE IF v \in Promises THEN "json:" \o EmptyObject
  ELSE "json:" \o v

JSONparse(c) ==
  IF c = "json:" \o EmptyObject THEN EmptyObject
  ELSE IF \E v \in Outputs \cup Names \cup Updated : JSONstringify(v) = c
  THEN CHOOSE v \in Outputs \cup Names \cup Updated : JSONstringify(v) = c
  ELSE Err

noOp(value) == value

\* a default that serializes the whole argument list, JSON.stringify(args)
defaultKeySerializationMethodOfArgs(input, context) ==
  "json:[" \o input \o "," \o context \o "]"

\* a default that converts the input to a string, String(input)
defaultKeySerializationMethodOfString(input, context) == "[object Object]"

defaultKeySerializationMethod(input, context) == JSONstringify(input)

\* a default that stores the JSON of the output
defaultValueSerializationMethodOfJSON(output) == JSONstringify(output)

defaultValueSerializationMethod(output) == noOp(output)

defaultValueDeserializationMethod(cached) == noOp(cached)

\* if (process.env.X): a variable of the environment is undefined or a
\* string, and the empty string is falsy
Truthy(flag) == flag \notin {Undef, ""}

\* a default in which the general flag comes first
defaultShouldBypassGetMethodGeneralFirst ==
  IF Truthy(cfg.env.CACHE_BYPASS) THEN cfg.env.CACHE_BYPASS = "true"
  ELSE IF Truthy(cfg.env.CACHE_BYPASS_GET) THEN cfg.env.CACHE_BYPASS_GET = "true"
  ELSE FALSE

defaultShouldBypassGetMethod ==
  IF Truthy(cfg.env.CACHE_BYPASS_GET) THEN cfg.env.CACHE_BYPASS_GET = "true"
  ELSE IF Truthy(cfg.env.CACHE_BYPASS) THEN cfg.env.CACHE_BYPASS = "true"
  ELSE FALSE

defaultShouldBypassSetMethod ==
  IF Truthy(cfg.env.CACHE_BYPASS_SET) THEN cfg.env.CACHE_BYPASS_SET = "true"
  ELSE IF Truthy(cfg.env.CACHE_BYPASS) THEN cfg.env.CACHE_BYPASS = "true"
  ELSE FALSE

(***************************************************************************)
(* The options the wrapper was constructed with.                           *)
(***************************************************************************)
\* a key serializer that gives every input the same key
serializeKeyOfNothing(input, context) == JSONstringify(Null)

\* serialize: { key: (input) => input.galaxy }
customKeySerializationMethod(input, context) == input

\* serialize: { key: (input) => input.name.slice(0, 1) }
firstLetterKeySerializationMethod(input, context) ==
  IF input = "casey" THEN "c" ELSE IF input = "katya" THEN "k" ELSE "?"

\* serialize: { key: (input) => String(input.name.length) }: a serializer that
\* gives the inputs of the calls one key
lengthKeySerializationMethod(input, context) == ToString(Len(input))

serializeKey(input, context) ==
  IF cfg.keySerde = "custom" THEN customKeySerializationMethod(input, context)
  ELSE IF cfg.keySerde = "firstLetter" THEN firstLetterKeySerializationMethod(input, context)
  ELSE IF cfg.keySerde = "length" THEN lengthKeySerializationMethod(input, context)
  ELSE defaultKeySerializationMethod(input, context)

serializeValue(output) ==
  IF cfg.serde = "noOp" THEN defaultValueSerializationMethod(output)
  ELSE JSONstringify(output)

deserializeValue(cached) ==
  IF cfg.serde = "noOp" THEN defaultValueDeserializationMethod(cached)
  ELSE IF cfg.serde = "json" THEN JSONparse(cached)
  ELSE Balloon

\* bypass = { get: defaultShouldBypassGetMethod, set: defaultShouldBypassSetMethod }
\* unless the caller gave a bypass option; bypass.get?.(args), with the
\* predicates the caller gave (cfg.bypass.has) being true of the inputs in
\* cfg.bypass.get and cfg.bypass.set, and the call of a predicate the caller
\* did not give being undefined
bypassGet(args) ==
  IF ~cfg.bypass.given THEN defaultShouldBypassGetMethod
  ELSE IF "get" \in cfg.bypass.has THEN args.input \in cfg.bypass.get
  ELSE FALSE

bypassSet(args) ==
  IF ~cfg.bypass.given THEN defaultShouldBypassSetMethod
  ELSE IF "set" \in cfg.bypass.has THEN args.input \in cfg.bypass.set
  ELSE FALSE

\* an expiration option that is dropped on the way to the cache
expirationDropped == Undef

\* the expiration option, as destructured from the options of the wrapper
expiration == cfg.expiration

\* a presence test that finds nothing present
isNotUndefinedNever(value) == FALSE

\* a presence test that finds everything present
isNotUndefinedAlways(value) == TRUE

\* a presence test that takes null for absent (value != undefined)
isNotUndefinedNorNull(value) == value \notin {Undef, Null}

isNotUndefined(value) == value # Undef

AllKeys == {serializeKey(a.input, a.context) : a \in Args}

\* the wrappers constructed over the logic
Instances == 1..MaxInstances

\* a choice that creates a deduplication cache for every wrapper
deduplicationCacheOfItsOwn(instance) == instance

\* getDeduplicationCacheOptionFromCacheInput: the deduplication cache of a
\* wrapper is the one the caller gave in cache: { output, deduplication }
\* (cache 1), or one created for the wrapper
deduplicationCacheOf(instance) == IF cfg.deduplication = "injected" THEN 1 ELSE instance

\* the keys the deduplication layer can be given
DeduplicationKeys ==
  AllKeys \cup {defaultKeySerializationMethod(a.input, a.context) : a \in Args}

\* the entry of a key in a deduplication cache
Entry(cache, key) == IF cache = 1 THEN key ELSE "cache " \o ToString(cache) \o ": " \o key

Entries == {Entry(cache, key) : cache \in Instances, key \in DeduplicationKeys}

\* a deduplication layer that derives its key with the default serializer
deduplicationKeyByDefault(args) == defaultKeySerializationMethod(args.input, args.context)

\* withExtendableCache(logicWithAsyncCache, { cache, serialize: { key: serializeKey } })
deduplicationKey(args) == serializeKey(args.input, args.context)

KeyOf(args) == serializeKey(args.input, args.context)

(***************************************************************************)
(* The cache capability: a store of serialized values by key, in which     *)
(* undefined means absent.                                                 *)
(***************************************************************************)
cacheGet(s, key) == s[key]

\* a cache that keeps its entry when it is set to undefined
cacheSetKeepsEntry(s, key, value) == IF value = Undef THEN s ELSE [s EXCEPT ![key] = value]

cacheSet(s, key, value) == [s EXCEPT ![key] = value]

(***************************************************************************)
(* The configurations the wrappers are constructed with.                   *)
(***************************************************************************)
\* process.env without the CACHE_BYPASS flags
NoEnv == [CACHE_BYPASS_GET |-> Undef, CACHE_BYPASS_SET |-> Undef, CACHE_BYPASS |-> Undef]

\* process.env.CACHE_BYPASS = 'true'
EnvBypass == [CACHE_BYPASS_GET |-> Undef, CACHE_BYPASS_SET |-> Undef, CACHE_BYPASS |-> "true"]

NoBypassOption == [given |-> FALSE, has |-> {}, get |-> {}, set |-> {}]

\* a backend that answers every operation
NoFault == [run |-> 0, op |-> ""]

\* wrapper: withSimpleCache ("sync") or withSimpleCacheAsync ("async");
\* cacheKind: whether cache.get / cache.set answer within the current
\* macrotask ("sync": a synchronous cache, or an async function that does
\* no I/O) or after I/O ("async");
\* logicKind: whether the logic given to withSimpleCacheAsync settles within
\* the current macrotask ("microtask") or after a timer or I/O ("io");
\* fault: the operation on the primary cache that fails, and the run it fails in;
\* choice: whether the cache option is a cache ("instance") or a function that
\* takes the cache from the input of a call ("resolver");
\* keySerde: the serialize.key option;
\* expiration: the expiration option;
\* contexts: the second arguments the decorated function is called with;
\* deduplication: whether each wrapper creates its deduplication cache ("own")
\* or the caller gives one to all of them ("injected");
\* instances: how many wrappers are constructed over the logic and the cache;
\* hook: the hook.onSet option of the wrappers that take one
Config(wrapper, cacheKind, logicKind, serde, env) ==
  [wrapper |-> wrapper, cacheKind |-> cacheKind, logicKind |-> logicKind,
   serde |-> serde, env |-> env, bypass |-> NoBypassOption, fault |-> NoFault,
   choice |-> "instance", keySerde |-> "default", expiration |-> Undef,
   contexts |-> {Ctx}, deduplication |-> "own", instances |-> 1, hook |-> Undef]

Configs ==
  {Config("sync", "sync", "call", serde, NoEnv) : serde \in {"noOp", "json", "lossy"}} \cup
  {Config("sync", "sync", "call", "noOp", EnvBypass)} \cup
  {Config("async", "sync", logicKind, "noOp", NoEnv) : logicKind \in {"io", "microtask"}} \cup
  {Config("async", "sync", "io", "lossy", NoEnv)} \cup
  {Config("async", "async", "io", serde, NoEnv) : serde \in {"noOp", "json"}} \cup
  {Config("async", "async", "io", "noOp", EnvBypass)}

\* the operation op of run i on the primary cache throws: the first cache.get
\* ("get"), cache.set ("set"), or the cache.get after the set ("reget")
Throws(i, op) == cfg.fault.run = i /\ cfg.fault.op = op

\* the backend does not keep what run i sets (an entry that expires at once)
Loses(i) == cfg.fault.run = i /\ cfg.fault.op = "lost"

\* an await that takes an error thrown for a value
ThrownNever(answer) == FALSE

\* what an awaited cache operation answered was an error thrown
Thrown(answer) == answer = IOErr

\* the caches the caller holds: the one given to the wrapper, or taken from the
\* context of a call, and another
Caches == {"primary", "other"}

\* a choice that takes the first cache when the input gives none
getCacheFromCacheChoiceAnyway(forInput) == "primary"

\* getCacheFromCacheChoice({ forInput, cacheOption }): the cache, or the error
\* thrown when the function that is to give the cache gives none
getCacheFromCacheChoice(forInput) ==
  IF cfg.choice = "resolver"
  THEN IF forInput.context = CtxWithCache THEN "primary"
       ELSE IF forInput.context = CtxWithOther THEN "other"
       ELSE BadRequestErrorExtract
  ELSE "primary"

\* the contexts the decorated function is called with
CallContexts == cfg.contexts

\* a record of one run of the cached logic (get, logic, set, re-get);
\* expiration is the expiration in the options of its cache.set, onSet the
\* arguments of the calls of hook.onSet
NewPipe(args) ==
  [args |-> args, key |-> KeyOf(args), pc |-> "start", firstGet |-> NA,
   invoked |-> FALSE, output |-> NA, wrote |-> NA, expiration |-> NA, reget |-> NA,
   result |-> NA, warned |-> FALSE, afterEvict |-> KeyOf(args) \in evicted.keys,
   trace |-> <<>>, onSet |-> <<>>]

\* the run called cache.get, the logic or cache.set ("get", "logic", "set"), or
\* what it called returned, threw or settled ("get:settled", ...)
Did(p, events) == [p EXCEPT !.trace = @ \o events]

Settled(p) == p.pc \in {"resolved", "rejected"}

Resolve(p, value) == [p EXCEPT !.pc = "resolved", !.result = value]

Reject(p, error) == [p EXCEPT !.pc = "rejected", !.result = error]

Job(kind, id, val) == [kind |-> kind, id |-> id, val |-> val]

\* the caller's code is what runs now: the job at the head of the queue is its
UserRunning == IF queue = <<>> THEN TRUE ELSE Head(queue).kind = "user"

\* the job queue after the caller's code queued jobs: the caller's code is
\* still the job that runs
UserQueued(jobs) ==
  IF jobs = <<>> THEN queue
  ELSE (IF queue = <<>> THEN <<Job("user", 0, NA)>> ELSE queue) \o jobs

\* the microtasks of the caller's code that wait in the job queue
UserJobs == Len(SelectSeq(queue, LAMBDA j : j.kind = "user"))

\* the calls that had settled when the next call is issued
SettledCalls == {i \in 1..Len(calls) : calls[i].state = "settled"}

(***************************************************************************)
(* withSimpleCache: one synchronous decorated call, with the logic         *)
(* returning (or throwing) out.  Gives the finished run and the store.     *)
(***************************************************************************)
withSimpleCacheRun(args, out) ==
  LET i == Len(pipes) + 1
      key == serializeKey(args.input, args.context)
      p0 == NewPipe(args)
      cachedValue == IF bypassGet(args) THEN Undef ELSE cacheGet(store, key)
      p1 == IF bypassGet(args) THEN p0
            ELSE Did([p0 EXCEPT !.firstGet = cachedValue], <<"get", "get:settled">>)
  IN  IF getCacheFromCacheChoice(args) \notin Caches
      THEN [pipe |-> Reject(p0, getCacheFromCacheChoice(args)), store |-> store]
      ELSE IF ~bypassGet(args) /\ Throws(i, "get")
      THEN [pipe |-> Reject(Did(p0, <<"get", "get:settled">>), IOErr), store |-> store]
      ELSE IF isNotUndefined(cachedValue)
      THEN [pipe |-> Resolve(p1, deserializeValue(cachedValue)), store |-> store]
      ELSE
        LET p2 == Did([p1 EXCEPT !.invoked = TRUE, !.output = out],
                      <<"logic", "logic:settled">>)
        IN  IF out = Err THEN [pipe |-> Reject(p2, Err), store |-> store]
            ELSE IF bypassSet(args) THEN [pipe |-> Resolve(p2, out), store |-> store]
            ELSE IF Throws(i, "set")
            THEN [pipe |-> Reject(Did(p2, <<"set", "set:settled">>), IOErr), store |-> store]
            ELSE
              LET serializedOutput == serializeValue(out)
                  store2 == IF Loses(i) THEN store ELSE cacheSet(store, key, serializedOutput)
                  p3 == Did([p2 EXCEPT !.wrote = serializedOutput, !.expiration = expiration],
                            <<"set", "set:settled">>)
              IN  IF out = Undef THEN [pipe |-> Resolve(p3, out), store |-> store2]
                  ELSE IF Throws(i, "reget")
                  THEN [pipe |-> Reject(Did(p3, <<"get", "get:settled">>), IOErr),
                        store |-> store2]
                  ELSE
                    LET cachedValueNow == cacheGet(store2, key)
                        p4 == Did([p3 EXCEPT !.reget = cachedValueNow],
                                  <<"get", "get:settled">>)
                    IN  IF isNotUndefined(cachedValueNow)
                        THEN [pipe |-> Resolve(p4, deserializeValue(cachedValueNow)),
                              store |-> store2]
                        ELSE [pipe |-> Resolve([p4 EXCEPT !.warned = TRUE], out),
                              store |-> store2]

withSimpleCache(args, out) ==
  /\ cfg.wrapper = "sync"
  /\ UserRunning
  /\ Len(calls) < load.calls
  /\ args.input \in load.names
  /\ args.context \in CallContexts
  /\ LET run == withSimpleCacheRun(args, logic(Len(pipes) + 1, out))
     IN  /\ (out # NA) <=> run.pipe.invoked \* the logic runs on a miss only
         /\ pipes' = Append(pipes, run.pipe)
         /\ calls' = Append(calls, [args |-> args, key |-> KeyOf(args),
                                    pipe |-> Len(pipes) + 1, prior |-> SettledCalls,
                                    state |-> "settled", instance |-> 1])
         /\ store' = run.store
  /\ evicted' = [evicted EXCEPT !.keys = @ \ {KeyOf(args)}]
  /\ UNCHANGED <<cfg, load, dedup, queue, other, ops>>

(***************************************************************************)
(* A party other than the wrapper sets a populated entry to undefined.     *)
(***************************************************************************)
InFlight(key) ==
  \/ \E i \in 1..Len(pipes) : pipes[i].key = key /\ ~Settled(pipes[i])
  \/ \E i \in 1..Len(calls) : calls[i].key = key /\ calls[i].state # "settled"

ExternalInvalidate(key) ==
  /\ UserRunning
  /\ evicted.count < load.evicts
  /\ isNotUndefined(store[key])
  /\ store' = cacheSet(store, key, Undef)
  /\ evicted' = [keys |-> IF InFlight(key) THEN evicted.keys ELSE evicted.keys \cup {key},
                 ever |-> evicted.ever \cup {key},
                 count |-> evicted.count + 1]
  /\ UNCHANGED <<cfg, load, dedup, pipes, calls, queue, other, ops>>

(***************************************************************************)
(* withSimpleCacheAsync.  logicWithAsyncCache is an async function: each   *)
(* of the operators below is the code between two awaits, and gives the    *)
(* run's new state, the store, and the continuation it queues when what it *)
(* awaits answers within the current macrotask.  out is what the logic     *)
(* does when this code invokes a logic that settles within the macrotask.  *)
(***************************************************************************)
\* await logic(...args)
logicWithAsyncCacheInvoke(i, p, out, st) ==
  [pipe |-> Did([p EXCEPT !.invoked = TRUE, !.pc = "logic"], <<"logic">>), store |-> st,
   jobs |-> IF cfg.logicKind = "microtask" THEN <<Job("cont", i, logic(i, out))>> ELSE <<>>]

\* a wrapper that reads the cache whatever bypass.get says
logicWithAsyncCacheStartReadsAnyway(i, args, out, st) ==
  [pipe |-> [NewPipe(args) EXCEPT !.pc = "get"], store |-> st,
   jobs |-> IF cfg.cacheKind = "sync" THEN <<Job("cont", i, cacheGet(st, KeyOf(args)))>>
            ELSE <<>>]

\* const key = ...; const cache = ...; bypass.get?.(args) ? undefined : await cache.get(key)
logicWithAsyncCacheStart(i, args, out, st) ==
  LET p == NewPipe(args)
  IN  IF getCacheFromCacheChoice(args) \notin Caches
      THEN [pipe |-> Reject(p, getCacheFromCacheChoice(args)), store |-> st, jobs |-> <<>>]
      ELSE IF bypassGet(args)
      THEN logicWithAsyncCacheInvoke(i, p, out, st)
      ELSE [pipe |-> Did([p EXCEPT !.pc = "get"], <<"get">>), store |-> st,
            jobs |-> IF cfg.cacheKind = "sync"
                     THEN <<Job("cont", i, IF Throws(i, "get") THEN IOErr
                                           ELSE cacheGet(st, p.key))>>
                     ELSE <<>>]

\* a wrapper that computes again on a hit
logicWithAsyncCacheAfterGetRecomputes(i, p, cachedValue, out, st) ==
  logicWithAsyncCacheInvoke(i, [p EXCEPT !.firstGet = cachedValue], out, st)

\* if (isNotUndefined(cachedValue)) return deserializeValue(cachedValue); await logic(...args)
logicWithAsyncCacheAfterGet(i, p0, cachedValue, out, st) ==
  LET p == Did(p0, <<"get:settled">>)
      p1 == [p EXCEPT !.firstGet = cachedValue]
  IN  IF Thrown(cachedValue) THEN [pipe |-> Reject(p, IOErr), store |-> st, jobs |-> <<>>]
      ELSE IF isNotUndefined(cachedValue)
      THEN [pipe |-> Resolve(p1, deserializeValue(cachedValue)), store |-> st,
            jobs |-> <<>>]
      ELSE logicWithAsyncCacheInvoke(i, p1, out, st)

\* a wrapper that turns what the logic did, a rejection too, into undefined
logicWithAsyncCacheAfterLogicSwallows(i, p, out, st) ==
  [pipe |-> Resolve([p EXCEPT !.output = out], Undef), store |-> st, jobs |-> <<>>]

\* a wrapper that sets whatever bypass.set says
logicWithAsyncCacheAfterLogicSetsAnyway(i, p, out, st) ==
  LET p1 == [p EXCEPT !.output = out]
      serializedOutput == serializeValue(out)
  IN  IF out = Err THEN [pipe |-> Reject(p1, Err), store |-> st, jobs |-> <<>>]
      ELSE [pipe |-> Resolve([p1 EXCEPT !.wrote = serializedOutput, !.expiration = expiration],
                             out),
            store |-> cacheSet(st, p.key, serializedOutput), jobs |-> <<>>]

\* if (bypass.set?.(args)) return output; await cache.set(key, serializedOutput, { expiration })
logicWithAsyncCacheAfterLogic(i, p, out, st) ==
  LET p1 == Did([p EXCEPT !.output = out], <<"logic:settled">>)
      p2 == Did([p1 EXCEPT !.pc = "set"], <<"set">>)
      serializedOutput == serializeValue(out)
  IN  IF out = Err THEN [pipe |-> Reject(p1, Err), store |-> st, jobs |-> <<>>]
      ELSE IF bypassSet(p.args)
      THEN [pipe |-> Resolve(p1, out), store |-> st, jobs |-> <<>>]
      ELSE IF cfg.cacheKind = "sync"
      THEN IF Throws(i, "set")
           THEN [pipe |-> p2, store |-> st, jobs |-> <<Job("cont", i, IOErr)>>]
           ELSE [pipe |-> [p2 EXCEPT !.wrote = serializedOutput, !.expiration = expiration],
                 store |-> IF Loses(i) THEN st ELSE cacheSet(st, p.key, serializedOutput),
                 jobs |-> <<Job("cont", i, NA)>>]
      ELSE [pipe |-> p2, store |-> st, jobs |-> <<>>]

\* a wrapper that returns the output once it is set, without reading it back
logicWithAsyncCacheAfterSetSkipsReread(i, p, answer, st) ==
  [pipe |-> Resolve(Did(p, <<"set:settled">>), p.output), store |-> st, jobs |-> <<>>]

\* if (output === undefined) return output; await cache.get(key)
logicWithAsyncCacheAfterSet(i, p0, answer, st) ==
  LET p == Did(p0, <<"set:settled">>)
  IN
  IF Thrown(answer) THEN [pipe |-> Reject(p, IOErr), store |-> st, jobs |-> <<>>]
  ELSE IF p.output = Undef THEN [pipe |-> Resolve(p, p.output), store |-> st, jobs |-> <<>>]
  ELSE [pipe |-> Did([p EXCEPT !.pc = "reget"], <<"get">>), store |-> st,
        jobs |-> IF cfg.cacheKind = "sync"
                 THEN <<Job("cont", i, IF Throws(i, "reget") THEN IOErr
                                       ELSE cacheGet(st, p.key))>>
                 ELSE <<>>]

\* a miss that returns the output of the logic as it is
logicWithAsyncCacheAfterRegetRawOutput(i, p, cachedValueNow, st) ==
  [pipe |-> Resolve([p EXCEPT !.reget = cachedValueNow], p.output), store |-> st,
   jobs |-> <<>>]

\* a miss that fails when the value it set is not there to be read back
logicWithAsyncCacheAfterRegetStrict(i, p, cachedValueNow, st) ==
  LET p1 == [p EXCEPT !.reget = cachedValueNow]
  IN  IF isNotUndefined(cachedValueNow)
      THEN [pipe |-> Resolve(p1, deserializeValue(cachedValueNow)), store |-> st,
            jobs |-> <<>>]
      ELSE [pipe |-> Reject(p1, Err), store |-> st, jobs |-> <<>>]

\* if (isNotUndefined(cachedValueNow)) return deserializeValue(cachedValueNow); console.warn; return output
logicWithAsyncCacheAfterReget(i, p0, cachedValueNow, st) ==
  LET p == Did(p0, <<"get:settled">>)
      p1 == [p EXCEPT !.reget = cachedValueNow]
  IN  IF Thrown(cachedValueNow)
      THEN [pipe |-> Reject(p, IOErr), store |-> st, jobs |-> <<>>]
      ELSE IF isNotUndefined(cachedValueNow)
      THEN [pipe |-> Resolve(p1, deserializeValue(cachedValueNow)), store |-> st,
            jobs |-> <<>>]
      ELSE [pipe |-> Resolve([p1 EXCEPT !.warned = TRUE], p.output), store |-> st,
            jobs |-> <<>>]

\* out is given exactly when the step r invokes a logic that settles within
\* the macrotask
InvokesNow(r, out) ==
  (out # NA) <=> (r.pipe.pc = "logic" /\ cfg.logicKind = "microtask")

\* a promise whose settling runs no reaction
FinallyJobsNone(i) == <<>>

\* promiseResult.finally(() => invalidate({ forInput: args })): the reactions
\* of the calls that wait on run i, in the order they were registered
FinallyJobs(i) ==
  LET waiting == SelectSeq([c \in 1..Len(calls) |-> c],
                           LAMBDA c : calls[c].pipe = i /\ calls[c].state = "pending")
  IN  [j \in 1..Len(waiting) |-> Job("finally", waiting[j], NA)]

\* the cache of a run: what the cache found for its input holds
CacheFor(args) == IF getCacheFromCacheChoice(args) = "other" THEN other ELSE store

\* the cache of a run now holds st, the other cache what it held
Stored(args, st) ==
  /\ store' = IF getCacheFromCacheChoice(args) = "other" THEN store ELSE st
  /\ other' = IF getCacheFromCacheChoice(args) = "other" THEN st ELSE other

\* the run i moves on: rest is the job queue without the job that ran
Advance(rest, i, r) ==
  /\ pipes' = [pipes EXCEPT ![i] = r.pipe]
  /\ Stored(r.pipe.args, r.store)
  /\ queue' = rest \o r.jobs \o (IF Settled(r.pipe) THEN FinallyJobs(i) ELSE <<>>)

(***************************************************************************)
(* A decorated call: execute is withSimpleCache over the deduplication     *)
(* cache, with logicWithAsyncCache as its logic and the default bypass.    *)
(* The deduplication cache maps a key to the run whose promise it holds    *)
(* (0: undefined).                                                         *)
(***************************************************************************)
\* a lookup that never finds the promise of a run in progress
executeCachedValueNeverFound(key) == 0

\* bypass.get?.(args) ? undefined : cache.get(key), on the deduplication cache
executeCachedValue(key) == IF defaultShouldBypassGetMethod THEN 0 ELSE dedup[key]

\* if (bypass.set?.(args)) return output; cache.set(key, serializedOutput, ...)
executeSet(key, i) == IF defaultShouldBypassSetMethod THEN dedup ELSE [dedup EXCEPT ![key] = i]

\* a call of the wrapper instance
logicWithAsyncCacheAndInMemoryRequestDeduplication(instance, args, out) ==
  /\ cfg.wrapper = "async"
  /\ UserRunning
  /\ Len(calls) < load.calls
  /\ instance <= cfg.instances
  /\ args.input \in load.names
  /\ args.context \in CallContexts
  /\ LET key == Entry(deduplicationCacheOf(instance), deduplicationKey(args))
         cachedValue == executeCachedValue(key)
         c == Len(calls) + 1
         i == Len(pipes) + 1
         call == [args |-> args, key |-> KeyOf(args), pipe |-> 0, prior |-> SettledCalls,
                  state |-> "pending", instance |-> instance]
     IN  IF cachedValue # 0
         THEN /\ out = NA
              /\ calls' = Append(calls, [call EXCEPT !.pipe = cachedValue])
              /\ queue' = UserQueued(IF Settled(pipes[cachedValue])
                                      THEN <<Job("finally", c, NA)>> ELSE <<>>)
              /\ UNCHANGED <<pipes, store, other, dedup>>
         ELSE LET r == logicWithAsyncCacheStart(i, args, out, CacheFor(args))
              IN  /\ InvokesNow(r, out)
                  /\ pipes' = Append(pipes, r.pipe)
                  /\ Stored(args, r.store)
                  /\ queue' = UserQueued(r.jobs \o (IF Settled(r.pipe)
                                                     THEN <<Job("finally", c, NA)>>
                                                     ELSE <<>>))
                  /\ dedup' = executeSet(key, i)
                  /\ calls' = Append(calls, [call EXCEPT !.pipe = i])
  /\ evicted' = [evicted EXCEPT !.keys = @ \ {KeyOf(args)}]
  /\ UNCHANGED <<cfg, load, ops>>

\* a continuation of logicWithAsyncCache runs as a microtask
RunContinuation(out) ==
  /\ queue # <<>>
  /\ Head(queue).kind = "cont"
  /\ LET i == Head(queue).id
         p == pipes[i]
         val == Head(queue).val
         st == CacheFor(p.args)
         r == CASE p.pc = "get" -> logicWithAsyncCacheAfterGet(i, p, val, out, st)
                [] p.pc = "logic" -> logicWithAsyncCacheAfterLogic(i, p, val, st)
                [] p.pc = "set" -> logicWithAsyncCacheAfterSet(i, p, val, st)
                [] p.pc = "reget" -> logicWithAsyncCacheAfterReget(i, p, val, st)
     IN  /\ IF p.pc = "get" THEN InvokesNow(r, out) ELSE out = NA
         /\ Advance(Tail(queue), i, r)
  /\ UNCHANGED <<cfg, load, dedup, calls, evicted, ops>>

\* an invalidation that leaves the deduplication cache as it is
invalidateNothing(instance, args) == dedup

\* withExtendableCache.invalidate({ forInput: args }) on the deduplication
\* cache of the wrapper instance
invalidate(instance, args) ==
  LET key == Entry(deduplicationCacheOf(instance), deduplicationKey(args))
  IN  [dedup EXCEPT ![key] = 0]

\* .finally(() => invalidate({ forInput: args })).then(() => promiseResult)
RunFinally ==
  /\ queue # <<>>
  /\ Head(queue).kind = "finally"
  /\ LET c == Head(queue).id
     IN  /\ dedup' = invalidate(calls[c].instance, calls[c].args)
         /\ calls' = [calls EXCEPT ![c].state = "invalidated"]
         /\ queue' = Append(Tail(queue), Job("settle", c, NA))
  /\ UNCHANGED <<cfg, load, store, pipes, evicted, other, ops>>

\* the promise returned to the caller settles; the caller's code that awaits
\* it, if any, resumes in a microtask
RunSettle(resumes) ==
  /\ queue # <<>>
  /\ Head(queue).kind = "settle"
  /\ calls' = [calls EXCEPT ![Head(queue).id].state = "settled"]
  /\ IF resumes
     THEN /\ UserJobs < load.defers
          /\ queue[Len(queue)].kind # "user"
          /\ queue' = Append(Tail(queue), Job("user", 0, NA))
     ELSE queue' = Tail(queue)
  /\ UNCHANGED <<cfg, load, store, dedup, pipes, evicted, other, ops>>

(***************************************************************************)
(* Timers and I/O: the awaited operation answers in a later macrotask, and *)
(* the continuation is then the only microtask.                            *)
(***************************************************************************)
CacheGetResolves(i, out) ==
  /\ queue = <<>>
  /\ cfg.cacheKind = "async"
  /\ pipes[i].pc = "get"
  /\ LET st == CacheFor(pipes[i].args)
         answer == IF Throws(i, "get") THEN IOErr ELSE cacheGet(st, pipes[i].key)
         r == logicWithAsyncCacheAfterGet(i, pipes[i], answer, out, st)
     IN  /\ InvokesNow(r, out)
         /\ Advance(queue, i, r)
  /\ UNCHANGED <<cfg, load, dedup, calls, evicted, ops>>

LogicSettles(i, out) ==
  /\ queue = <<>>
  /\ cfg.logicKind = "io"
  /\ pipes[i].pc = "logic"
  /\ Advance(queue, i, logicWithAsyncCacheAfterLogic(i, pipes[i], logic(i, out),
                                                     CacheFor(pipes[i].args)))
  /\ UNCHANGED <<cfg, load, dedup, calls, evicted, ops>>

CacheSetResolves(i) ==
  /\ queue = <<>>
  /\ cfg.cacheKind = "async"
  /\ pipes[i].pc = "set"
  /\ LET serializedOutput == serializeValue(pipes[i].output)
         st == CacheFor(pipes[i].args)
     IN  IF Throws(i, "set")
         THEN Advance(queue, i, logicWithAsyncCacheAfterSet(i, pipes[i], IOErr, st))
         ELSE Advance(queue, i,
                      logicWithAsyncCacheAfterSet(
                        i, [pipes[i] EXCEPT !.wrote = serializedOutput,
                                            !.expiration = expiration], NA,
                        IF Loses(i) THEN st
                        ELSE cacheSet(st, pipes[i].key, serializedOutput)))
  /\ UNCHANGED <<cfg, load, dedup, calls, evicted, ops>>

CacheRegetResolves(i) ==
  /\ queue = <<>>
  /\ cfg.cacheKind = "async"
  /\ pipes[i].pc = "reget"
  /\ LET st == CacheFor(pipes[i].args)
         answer == IF Throws(i, "reget") THEN IOErr ELSE cacheGet(st, pipes[i].key)
     IN  Advance(queue, i, logicWithAsyncCacheAfterReget(i, pipes[i], answer, st))
  /\ UNCHANGED <<cfg, load, dedup, calls, evicted, ops>>

(***************************************************************************)
(* The caller's code runs in a macrotask of its own (when the queue is     *)
(* empty) or in a microtask it queued (an await, a then).                  *)
(***************************************************************************)
\* (a microtask queued right behind another of the caller's is the same job)
UserDefer ==
  /\ cfg.wrapper = "async"
  /\ queue # <<>>
  /\ UserRunning
  /\ queue[Len(queue)].kind # "user"
  /\ UserJobs < load.defers
  /\ queue' = Append(queue, Job("user", 0, NA))
  /\ UNCHANGED <<cfg, load, store, dedup, pipes, calls, evicted, other, ops>>

UserJobEnd ==
  /\ queue # <<>>
  /\ Head(queue).kind = "user"
  /\ queue' = Tail(queue)
  /\ UNCHANGED <<cfg, load, store, dedup, pipes, calls, evicted, other, ops>>

(***************************************************************************)
(* withExtendableCache: execute is withSimpleCache; invalidate and update  *)
(* act on the cache for an input (forInput) or for a key (forKey).         *)
(***************************************************************************)
ForInput(args) == [by |-> "forInput", forInput |-> args, forKey |-> NA, cache |-> Undef]

\* cache: the cache the caller names, or undefined
ForKey(key, cache) ==
  [by |-> "forKey", forInput |-> [input |-> NA, context |-> NA], forKey |-> key,
   cache |-> cache]

\* !!obj.forInput
hasForInputProperty(target) == target.by = "forInput"

\* a choice that falls back on the cache of the calls when none is named
getCacheFromCacheChoiceOrFromForKeyArgsFallsBack(target, trigger) ==
  IF hasForInputProperty(target) THEN getCacheFromCacheChoice(target.forInput)
  ELSE IF target.cache = Undef THEN "primary"
  ELSE target.cache

\* the cache to invalidate or update in, or the error thrown
getCacheFromCacheChoiceOrFromForKeyArgs(target, trigger) ==
  IF hasForInputProperty(target) THEN getCacheFromCacheChoice(target.forInput)
  ELSE IF cfg.choice # "resolver" THEN "primary"
  ELSE IF target.cache = Undef THEN BadRequestErrorFind(trigger)
  ELSE target.cache

\* a key for invalidate and update that is always that of the default serializer
TargetKeyByDefault(target) ==
  IF hasForInputProperty(target)
  THEN defaultKeySerializationMethod(target.forInput.input, target.forInput.context)
  ELSE target.forKey

\* hasForInputProperty(args) ? serializeKey(args.forInput[0], args.forInput[1]) : args.forKey
TargetKey(target) ==
  IF hasForInputProperty(target)
  THEN serializeKey(target.forInput.input, target.forInput.context)
  ELSE target.forKey

Backends == [primary |-> store, other |-> other]

\* a record of one invalidate or update: at is the number of calls made
\* before, expiration the expiration in the options of its cache.set, pc the
\* operation an asynchronous invalidate or update awaits, inFlight whether
\* a call of its key was in flight, doneAt the number of calls and opsAt the
\* number of operations made when it was done
NewOp(trigger, target) ==
  [trigger |-> trigger, target |-> target, at |-> Len(calls), cache |-> NA, key |-> NA,
   cachedValue |-> NA, fromCachedOutput |-> NA, toValue |-> NA, newValue |-> NA,
   wrote |-> NA, expiration |-> NA, error |-> NA, before |-> Backends, after |-> Backends,
   onSet |-> <<>>, pc |-> "done", inFlight |-> FALSE, doneAt |-> 0,
   opsAt |-> 0]

\* a cache.set that leaves the caches as they are
WroteNothing(op, cache, key, value) ==
  /\ ops' = Append(ops, [op EXCEPT !.cache = cache, !.key = key, !.wrote = value])
  /\ UNCHANGED <<store, other>>

\* the operation ran cache.set(key, value) on the cache it found
Wrote(op, cache, key, value) ==
  /\ store' = IF cache = "primary" THEN cacheSet(store, key, value) ELSE store
  /\ other' = IF cache = "other" THEN cacheSet(other, key, value) ELSE other
  /\ ops' = Append(ops, [op EXCEPT !.cache = cache, !.key = key, !.wrote = value,
                                   !.after = [primary |-> store', other |-> other']])

\* the operation threw before it touched a cache
ThrewBadRequest(op, error) ==
  /\ ops' = Append(ops, [op EXCEPT !.error = error])
  /\ UNCHANGED <<store, other>>

\* invalidate: cache.set(key, undefined)
withExtendableCacheInvalidate(target) ==
  /\ Len(ops) < load.ops
  /\ LET cache == getCacheFromCacheChoiceOrFromForKeyArgs(target, "invalidate")
         key == TargetKey(target)
         op == NewOp("invalidate", target)
     IN  IF cache \notin Caches THEN ThrewBadRequest(op, cache)
         ELSE Wrote([op EXCEPT !.expiration = NoOptions], cache, key, Undef)
  /\ UNCHANGED <<cfg, load, dedup, pipes, calls, queue, evicted>>

\* toValue: ({ fromCachedOutput }) => (fromCachedOutput ?? 0) * 2
Doubler == "({ fromCachedOutput }) => (fromCachedOutput ?? 0) * 2"

\* what update is given for toValue: a literal, or a function of the cached output
ToValues == {Literal, Doubler}

\* a test that takes every toValue for a function, and one that takes none
isAFunctionAlways(value) == TRUE

isAFunctionNever(value) == FALSE

isAFunction(value) == value = Doubler

\* update: cache.get(key), toValue, cache.set(key, serializeValue(newValue), { expiration })
withExtendableCacheUpdate(target, toValue) ==
  /\ Len(ops) < load.ops
  /\ LET cache == getCacheFromCacheChoiceOrFromForKeyArgs(target, "update")
         key == TargetKey(target)
         op == [NewOp("update", target) EXCEPT !.toValue = toValue]
     IN  IF cache \notin Caches THEN ThrewBadRequest(op, cache)
         ELSE
           LET cachedValue == cacheGet(Backends[cache], key)
               deserializedCachedOutput ==
                 IF cachedValue # Undef THEN deserializeValue(cachedValue) ELSE Undef
               newValue == IF isAFunction(toValue) THEN Times2(deserializedCachedOutput)
                           ELSE toValue
               serializedNewValue == serializeValue(newValue)
           IN  Wrote([op EXCEPT !.cachedValue = cachedValue,
                                !.fromCachedOutput =
                                   IF isAFunction(toValue) THEN deserializedCachedOutput ELSE NA,
                                !.newValue = newValue,
                                !.expiration = expiration],
                     cache, key, serializedNewValue)
  /\ UNCHANGED <<cfg, load, dedup, pipes, calls, queue, evicted>>

\* the calls made on a configuration: which inputs, which of their entries
\* the backend held before the wrapper was constructed, and how many events
Load(names, warm, nCalls, nEvicts, nDefers) ==
  [names |-> names, warm |-> warm, calls |-> nCalls, evicts |-> nEvicts,
   defers |-> nDefers]

WarmKeys == {KeyOf(a) : a \in {a \in Args : a.input = "casey"}}

\* the entries the backend held before the wrapper was constructed
Warms == IF cfg.serde = "json" \/ cfg.env # NoEnv THEN {{}} ELSE {{}, WarmKeys}

\* the synchronous wrapper is called with two inputs; the asynchronous wrapper
\* with two inputs, and with one input in a burst of calls
Loads ==
  IF cfg.wrapper = "sync"
  THEN {Load(Names, warm, MaxCalls, MaxEvicts, 0) : warm \in Warms}
  ELSE IF cfg.serde = "noOp" /\ cfg.env = NoEnv
  THEN {Load({"casey"}, warm,
             IF cfg.logicKind = "microtask" THEN MaxBurst - 1 ELSE MaxBurst,
             0, MaxDefers) : warm \in Warms}
  ELSE {Load(Names, warm, MaxAsyncCalls, MaxEvicts, MaxDefers - 1) : warm \in Warms}

\* what the logic given to the wrapper does in a configuration
LogicOutcomes ==
  IF cfg.wrapper = "sync" /\ cfg.serde = "noOp" /\ cfg.env = NoEnv /\ cfg.fault = NoFault
  THEN SyncOutcomes
  ELSE Outcomes

Init ==
  /\ cfg \in Configs
  /\ load \in Loads
  /\ store = [k \in AllKeys |-> IF k \in load.warm THEN serializeValue(Stale) ELSE Undef]
  /\ dedup = [k \in Entries |-> 0]
  /\ pipes = <<>>
  /\ calls = <<>>
  /\ queue = <<>>
  /\ evicted = [keys |-> {}, ever |-> {}, count |-> 0]
  /\ other = [k \in AllKeys |-> Undef]
  /\ ops = <<>>

Next ==
  \/ \E args \in Args, out \in LogicOutcomes \cup {NA} : withSimpleCache(args, out)
  \/ \E key \in AllKeys : ExternalInvalidate(key)
  \/ \E instance \in Instances, args \in Args, out \in Outcomes \cup {NA} :
       logicWithAsyncCacheAndInMemoryRequestDeduplication(instance, args, out)
  \/ \E out \in Outcomes \cup {NA} : RunContinuation(out)
  \/ RunFinally
  \/ \E resumes \in BOOLEAN : RunSettle(resumes)
  \/ \E i \in 1..Len(pipes), out \in Outcomes \cup {NA} : CacheGetResolves(i, out)
  \/ \E i \in 1..Len(pipes), out \in Outcomes : LogicSettles(i, out)
  \/ \E i \in 1..Len(pipes) : CacheSetResolves(i)
  \/ \E i \in 1..Len(pipes) : CacheRegetResolves(i)
  \/ UserDefer
  \/ UserJobEnd

Spec == Init /\ [][Next]_vars


(***************************************************************************)
(* The wrappers over a backend that fails: one operation of one run on the *)
(* primary cache throws (or the promise it returned rejects), or the entry *)
(* one run sets is not there to be read back.                              *)
(***************************************************************************)
\* the runs in which the backend can fail
MaxFaultRun == 2

Faults == [run : 1..MaxFaultRun, op : {"get", "set", "reget", "lost"}]

\* (the lossy serde shows which value a run returns: what it read back, or
\* the output of the logic)
FaultConfigs ==
  {[c EXCEPT !.fault = f] :
     c \in {Config("sync", "sync", "call", "noOp", NoEnv),
            Config("async", "sync", "io", "noOp", NoEnv),
            Config("async", "async", "io", "noOp", NoEnv)},
     f \in Faults} \cup
  {[c EXCEPT !.fault = f] :
     c \in {Config("sync", "sync", "call", "lossy", NoEnv),
            Config("async", "async", "io", "lossy", NoEnv)},
     f \in {f \in Faults : f.op = "lost"}}

\* the synchronous wrapper is called with two inputs, the asynchronous wrapper
\* with one input in a burst of calls, over a backend that held nothing
FaultLoads ==
  IF cfg.wrapper = "sync" THEN {Load(Names, {}, MaxCalls, MaxEvicts, 0)}
  ELSE {Load({"casey"}, {}, MaxBurst - 1, 0, MaxDefers)}

InitFaults ==
  /\ cfg \in FaultConfigs
  /\ load \in FaultLoads
  /\ store = [k \in AllKeys |-> IF k \in load.warm THEN serializeValue(Stale) ELSE Undef]
  /\ dedup = [k \in Entries |-> 0]
  /\ pipes = <<>>
  /\ calls = <<>>
  /\ queue = <<>>
  /\ evicted = [keys |-> {}, ever |-> {}, count |-> 0]
  /\ other = [k \in AllKeys |-> Undef]
  /\ ops = <<>>

SpecFaults == InitFaults /\ [][Next]_vars

(***************************************************************************)
(* withExtendableCache over the synchronous wrapper: execute, invalidate   *)
(* and update, with the cache given as a cache or taken from the context   *)
(* of each call, and with the default or a custom key serializer.          *)
(***************************************************************************)
ExtendableConfig(serde, choice, keySerde) ==
  [Config("sync", "sync", "call", serde, NoEnv) EXCEPT
     !.choice = choice, !.keySerde = keySerde,
     !.contexts = IF choice = "resolver" THEN Contexts ELSE {Ctx}]

ExtendableConfigs ==
  {ExtendableConfig(serde, "instance", "default") : serde \in {"noOp", "json", "lossy"}} \cup
  {ExtendableConfig("noOp", "instance", "custom"),
   ExtendableConfig("noOp", "resolver", "custom")}

ExtendableLoads ==
  {[names |-> Names, warm |-> {}, calls |-> MaxCalls - 1, evicts |-> 0, defers |-> 0,
    ops |-> MaxOps]}

\* the input that invalidate and update are called for, and its key
Targeted == {a \in Args : a.input = "casey" /\ a.context \in CallContexts}

\* what the targets of invalidate and update are on a configuration
Targets ==
  {ForInput(args) : args \in Targeted} \cup
  {ForKey(key, cache) :
     key \in {KeyOf(a) : a \in Targeted},
     cache \in IF cfg.choice = "resolver" THEN Caches \cup {Undef} ELSE {Undef}}

InitExtendable ==
  /\ cfg \in ExtendableConfigs
  /\ load \in ExtendableLoads
  /\ store = [k \in AllKeys |-> Undef]
  /\ dedup = [k \in Entries |-> 0]
  /\ pipes = <<>>
  /\ calls = <<>>
  /\ queue = <<>>
  /\ evicted = [keys |-> {}, ever |-> {}, count |-> 0]
  /\ other = [k \in AllKeys |-> Undef]
  /\ ops = <<>>

NextExtendable ==
  \/ \E args \in Args, out \in {"Math.random()", NA} : withSimpleCache(args, out)
  \/ \E target \in Targets : withExtendableCacheInvalidate(target)
  \/ \E target \in Targets, toValue \in ToValues : withExtendableCacheUpdate(target, toValue)

SpecExtendable == InitExtendable /\ [][NextExtendable]_vars

(***************************************************************************)
(* The wrappers constructed with options: an expiration, bypass predicates *)
(* (or the CACHE_BYPASS flags of the environment) and calls that differ in *)
(* their context; update is that of withExtendableCache over the           *)
(* synchronous wrapper.                                                    *)
(***************************************************************************)
\* bypass: { get: ({ name }) => name === 'casey' }, { set: ... }, and both
BypassGetOnly == [given |-> TRUE, has |-> {"get"}, get |-> {"casey"}, set |-> {}]

BypassSetOnly == [given |-> TRUE, has |-> {"set"}, get |-> {}, set |-> {"casey"}]

BypassOptions ==
  {BypassGetOnly, BypassSetOnly,
   [given |-> TRUE, has |-> {"get", "set"}, get |-> {"casey"}, set |-> {"casey"}]}

\* process.env.CACHE_BYPASS_GET = 'true'; process.env.CACHE_BYPASS_SET = 'true'
EnvBypassGet == [CACHE_BYPASS_GET |-> "true", CACHE_BYPASS_SET |-> Undef, CACHE_BYPASS |-> Undef]

EnvBypassSet == [CACHE_BYPASS_GET |-> Undef, CACHE_BYPASS_SET |-> "true", CACHE_BYPASS |-> Undef]

OptionConfigs ==
  LET wrappers == {Config("sync", "sync", "call", "noOp", NoEnv),
                   Config("async", "async", "io", "noOp", NoEnv)}
  IN  {[c EXCEPT !.expiration = x] : c \in wrappers, x \in Expirations \ {Undef}} \cup
      {[c EXCEPT !.contexts = Contexts] : c \in wrappers} \cup
      {[c EXCEPT !.expiration = "{ seconds: 3 }", !.bypass = b] :
         c \in wrappers, b \in BypassOptions} \cup
      {[c EXCEPT !.env = env] : c \in wrappers, env \in {EnvBypassGet, EnvBypassSet}} \cup
      {[c EXCEPT !.env = EnvBypassSet, !.bypass = BypassGetOnly] : c \in wrappers} \cup
      {[c EXCEPT !.env = EnvBypassGet, !.bypass = BypassSetOnly] : c \in wrappers} \cup
      {[Config("sync", "sync", "call", "lossy", NoEnv) EXCEPT !.bypass = b] :
         b \in BypassOptions}

\* where a bypass is configured the backend may hold an entry of the first
\* input before the wrapper is constructed; update is called on the
\* synchronous wrapper without bypass
OptionLoads ==
  LET bypassing == cfg.bypass.given \/ cfg.env # NoEnv
  IN  {[names |-> Names, warm |-> warm, calls |-> MaxCalls - 1, evicts |-> 0, defers |-> 0,
        ops |-> IF cfg.wrapper = "sync" /\ ~bypassing THEN MaxOps ELSE 0] :
         warm \in IF bypassing THEN {{}, WarmKeys} ELSE {{}}}

OptionOutcomes == {"Math.random()", Undef}

InitOptions ==
  /\ cfg \in OptionConfigs
  /\ load \in OptionLoads
  /\ store = [k \in AllKeys |-> IF k \in load.warm THEN serializeValue(Stale) ELSE Undef]
  /\ dedup = [k \in Entries |-> 0]
  /\ pipes = <<>>
  /\ calls = <<>>
  /\ queue = <<>>
  /\ evicted = [keys |-> {}, ever |-> {}, count |-> 0]
  /\ other = [k \in AllKeys |-> Undef]
  /\ ops = <<>>

NextOptions ==
  \/ \E args \in Args, out \in OptionOutcomes \cup {NA} : withSimpleCache(args, out)
  \/ \E instance \in Instances, args \in Args :
       logicWithAsyncCacheAndInMemoryRequestDeduplication(instance, args, NA)
  \/ RunFinally
  \/ RunSettle(FALSE)
  \/ \E i \in 1..Len(pipes) : CacheGetResolves(i, NA)
  \/ \E i \in 1..Len(pipes), out \in OptionOutcomes : LogicSettles(i, out)
  \/ \E i \in 1..Len(pipes) : CacheSetResolves(i)
  \/ \E i \in 1..Len(pipes) : CacheRegetResolves(i)
  \/ \E target \in Targets, toValue \in ToValues : withExtendableCacheUpdate(target, toValue)

SpecOptions == InitOptions /\ [][NextOptions]_vars

(***************************************************************************)
(* The default bypass predicates over the environment: each of the flags   *)
(* CACHE_BYPASS_GET, CACHE_BYPASS_SET and CACHE_BYPASS is absent, empty,   *)
(* 'true' or something else.  The synchronous wrapper is called over a     *)
(* backend that holds the entry of one of two inputs, so that every call   *)
(* shows what each predicate answered.                                     *)
(***************************************************************************)
FlagValues == {Undef, "", "true", "false"}

Envs == [CACHE_BYPASS_GET : FlagValues, CACHE_BYPASS_SET : FlagValues, CACHE_BYPASS : FlagValues]

EnvConfigs == {Config("sync", "sync", "call", "noOp", env) : env \in Envs}

EnvLoads ==
  {[names |-> Names, warm |-> WarmKeys, calls |-> MaxCalls - 1, evicts |-> 0, defers |-> 0,
    ops |-> 0]}

InitEnv ==
  /\ cfg \in EnvConfigs
  /\ load \in EnvLoads
  /\ store = [k \in AllKeys |-> IF k \in load.warm THEN serializeValue(Stale) ELSE Undef]
  /\ dedup = [k \in Entries |-> 0]
  /\ pipes = <<>>
  /\ calls = <<>>
  /\ queue = <<>>
  /\ evicted = [keys |-> {}, ever |-> {}, count |-> 0]
  /\ other = [k \in AllKeys |-> Undef]
  /\ ops = <<>>

NextEnv == \E args \in Args, out \in {"Math.random()", NA} : withSimpleCache(args, out)

SpecEnv == InitEnv /\ [][NextEnv]_vars

(***************************************************************************)
(* The deduplication layer of the asynchronous wrapper: with a custom key  *)
(* serializer, with several wrappers constructed over one logic and one    *)
(* cache, which have a deduplication cache each or are given one, and with *)
(* the cache taken from the context of each call.                          *)
(***************************************************************************)
DeduplicationConfigs ==
  LET c == Config("async", "async", "io", "noOp", NoEnv)
  IN  {[c EXCEPT !.keySerde = k] : k \in {"firstLetter", "length"}} \cup
      {[c EXCEPT !.deduplication = d, !.instances = MaxInstances] : d \in {"own", "injected"}} \cup
      {[c EXCEPT !.choice = "resolver", !.contexts = {CtxWithCache, CtxWithOther}]}

\* a wrapper with a custom key serializer is called with two inputs; the
\* wrappers constructed over one logic are called with one input
DeduplicationLoads ==
  IF cfg.instances = 1
  THEN {[names |-> Names, warm |-> {}, calls |-> MaxAsyncCalls + 1, evicts |-> 0,
         defers |-> 0, ops |-> 0]}
  ELSE {[names |-> {"casey"}, warm |-> {}, calls |-> MaxInstances + 1, evicts |-> 0,
         defers |-> 0, ops |-> 0]}

InitDeduplication ==
  /\ cfg \in DeduplicationConfigs
  /\ load \in DeduplicationLoads
  /\ store = [k \in AllKeys |-> Undef]
  /\ dedup = [k \in Entries |-> 0]
  /\ pipes = <<>>
  /\ calls = <<>>
  /\ queue = <<>>
  /\ evicted = [keys |-> {}, ever |-> {}, count |-> 0]
  /\ other = [k \in AllKeys |-> Undef]
  /\ ops = <<>>

NextDeduplication ==
  \/ \E instance \in Instances, args \in Args :
       logicWithAsyncCacheAndInMemoryRequestDeduplication(instance, args, NA)
  \/ RunFinally
  \/ RunSettle(FALSE)
  \/ \E i \in 1..Len(pipes) : CacheGetResolves(i, NA)
  \/ \E i \in 1..Len(pipes) : LogicSettles(i, "Math.random()")
  \/ \E i \in 1..Len(pipes) : CacheSetResolves(i)
  \/ \E i \in 1..Len(pipes) : CacheRegetResolves(i)

SpecDeduplication == InitDeduplication /\ [][NextDeduplication]_vars

(***************************************************************************)
(* The wrappers that take a hook: withSimpleCaching calls hook.onSet once  *)
(* cache.set has confirmed, withExtendableCaching after the cache.set of   *)
(* invalidate and of update.  The cache is synchronous.                    *)
(***************************************************************************)
\* hook: { onSet: (args) => onSetCalls.push(args) }
SavingHook == "(args) => onSetCalls.push(args)"

\* hook: { onSet: () => { throw new Error('hook failed') } }
ThrowingHook == "() => { throw new Error('hook failed') }"

HookErr == "Error: hook failed"

Hooks == {Undef, SavingHook, ThrowingHook}

\* the argument of hook.onSet; forInput is NoInput when there is none, value
\* is <<>> for undefined and else holds the one { output, cached }
NoInput == [input |-> Undef, context |-> Undef]

OnSetArgs(trigger, forInput, forKey, value) ==
  [trigger |-> trigger, forInput |-> forInput, forKey |-> forKey, value |-> value]

\* if (hook?.onSet) hook.onSet({ trigger, forInput, forKey, value }): the calls made
triggerOnSetHookIfNeeded(hookArgs) == IF cfg.hook # Undef THEN <<hookArgs>> ELSE <<>>

\* execute of the wrapper with a hook: get, logic, set, hook
withSimpleCachingRun(args, out) ==
  LET key == serializeKey(args.input, args.context)
      cache == getCacheFromCacheChoice(args)
      p0 == NewPipe(args)
  IN  IF cache \notin Caches THEN [pipe |-> Reject(p0, cache), store |-> store]
      ELSE
        LET cached == cacheGet(store, key)
            p1 == Did([p0 EXCEPT !.firstGet = cached], <<"get", "get:settled">>)
        IN  IF cached # Undef
            THEN [pipe |-> Resolve(p1, deserializeValue(cached)), store |-> store]
            ELSE
              LET p2 == Did([p1 EXCEPT !.invoked = TRUE, !.output = out],
                            <<"logic", "logic:settled">>)
                  serializedValue == serializeValue(out)
                  p3 == Did([p2 EXCEPT !.wrote = serializedValue,
                                       !.expiration = expiration,
                                       !.onSet = triggerOnSetHookIfNeeded(
                                          OnSetArgs("EXECUTE", args, key,
                                                    <<[output |-> out,
                                                       cached |-> serializedValue]>>))],
                            <<"set", "set:settled">>)
              IN  IF out = Err THEN [pipe |-> Reject(p2, Err), store |-> store]
                  ELSE IF cfg.hook = ThrowingHook
                  THEN [pipe |-> Reject(p3, HookErr),
                        store |-> cacheSet(store, key, serializedValue)]
                  ELSE [pipe |-> Resolve(p3, out),
                        store |-> cacheSet(store, key, serializedValue)]

withSimpleCaching(args, out) ==
  /\ cfg.wrapper = "sync"
  /\ Len(calls) < load.calls
  /\ args.input \in load.names
  /\ args.context \in CallContexts
  /\ LET run == withSimpleCachingRun(args, logic(Len(pipes) + 1, out))
     IN  /\ (out # NA) <=> run.pipe.invoked \* the logic runs on a miss only
         /\ pipes' = Append(pipes, run.pipe)
         /\ calls' = Append(calls, [args |-> args, key |-> KeyOf(args),
                                    pipe |-> Len(pipes) + 1, prior |-> SettledCalls,
                                    state |-> "settled", instance |-> 1])
         /\ store' = run.store
  /\ UNCHANGED <<cfg, load, dedup, queue, evicted, other, ops>>

\* what invalidate and update do once their cache.set has settled: the hook,
\* and the rejection of their promise when the hook throws
Hooked(op, hookArgs) ==
  [op EXCEPT !.onSet = triggerOnSetHookIfNeeded(hookArgs),
             !.error = IF cfg.hook = ThrowingHook THEN HookErr ELSE NA]

\* forInput of the hook of invalidate and update
HookInput(target) == IF hasForInputProperty(target) THEN target.forInput ELSE NoInput

\* invalidate: await cache.set(key, undefined), hook
withExtendableCachingInvalidate(target) ==
  /\ Len(ops) < load.ops
  /\ LET cache == getCacheFromCacheChoiceOrFromForKeyArgs(target, "invalidate")
         key == TargetKey(target)
         op == NewOp("invalidate", target)
     IN  IF cache \notin Caches THEN ThrewBadRequest(op, cache)
         ELSE Wrote(Hooked([op EXCEPT !.expiration = NoOptions],
                           OnSetArgs("INVALIDATE", HookInput(target), key, <<>>)),
                    cache, key, Undef)
  /\ UNCHANGED <<cfg, load, dedup, pipes, calls, queue, evicted>>

\* update: await cache.get(key), toValue, await cache.set(key, serialized,
\* { secondsUntilExpiration }), hook
withExtendableCachingUpdate(target, toValue) ==
  /\ Len(ops) < load.ops
  /\ LET cache == getCacheFromCacheChoiceOrFromForKeyArgs(target, "update")
         key == TargetKey(target)
         op == [NewOp("update", target) EXCEPT !.toValue = toValue]
     IN  IF cache \notin Caches THEN ThrewBadRequest(op, cache)
         ELSE
           LET cachedValue == cacheGet(Backends[cache], key)
               deserializedCachedOutput ==
                 IF cachedValue # Undef THEN deserializeValue(cachedValue) ELSE Undef
               newValue == IF isAFunction(toValue) THEN Times2(deserializedCachedOutput)
                           ELSE toValue
               serializedNewValue == serializeValue(newValue)
           IN  Wrote(Hooked([op EXCEPT !.cachedValue = cachedValue,
                                       !.fromCachedOutput =
                                          IF isAFunction(toValue)
                                          THEN deserializedCachedOutput ELSE NA,
                                       !.newValue = newValue,
                                       !.expiration = expiration],
                            OnSetArgs("UPDATE", HookInput(target), key,
                                      <<[output |-> newValue,
                                         cached |-> serializedNewValue]>>)),
                     cache, key, serializedNewValue)
  /\ UNCHANGED <<cfg, load, dedup, pipes, calls, queue, evicted>>

HookConfigs ==
  {[Config("sync", "sync", "call", serde, NoEnv) EXCEPT
      !.hook = hook, !.choice = choice,
      !.contexts = IF choice = "resolver" THEN Contexts ELSE {Ctx}] :
     serde \in {"noOp", "json"}, hook \in Hooks, choice \in {"instance", "resolver"}}

\* one input is called, invalidated and updated
HookLoads ==
  {[names |-> {"casey"}, warm |-> {}, calls |-> MaxCalls - 1, evicts |-> 0, defers |-> 0,
    ops |-> MaxOps]}

InitHook ==
  /\ cfg \in HookConfigs
  /\ load \in HookLoads
  /\ store = [k \in AllKeys |-> Undef]
  /\ dedup = [k \in Entries |-> 0]
  /\ pipes = <<>>
  /\ calls = <<>>
  /\ queue = <<>>
  /\ evicted = [keys |-> {}, ever |-> {}, count |-> 0]
  /\ other = [k \in AllKeys |-> Undef]
  /\ ops = <<>>

NextHook ==
  \/ \E args \in Args, out \in {"Math.random()", Undef, Err, NA} : withSimpleCaching(args, out)
  \/ \E target \in Targets : withExtendableCachingInvalidate(target)
  \/ \E target \in Targets, toValue \in ToValues : withExtendableCachingUpdate(target, toValue)

SpecHook == InitHook /\ [][NextHook]_vars

(***************************************************************************)
(* withExtendableCachingAsync: execute is the asynchronous wrapper;        *)
(* invalidate and update await each operation of a cache that answers      *)
(* after I/O, so that calls and operations made meanwhile interleave.      *)
(***************************************************************************)
\* invalidate: the cache and the key are found, cache.set(key, undefined) is called
withExtendableCachingAsyncInvalidate(target) ==
  /\ UserRunning
  /\ Len(ops) < load.ops
  /\ LET cache == getCacheFromCacheChoiceOrFromForKeyArgs(target, "invalidate")
         op == NewOp("invalidate", target)
     IN  ops' = Append(ops, IF cache \notin Caches THEN [op EXCEPT !.error = cache]
                            ELSE [op EXCEPT !.cache = cache, !.key = TargetKey(target),
                                            !.expiration = NoOptions, !.pc = "set"])
  /\ UNCHANGED <<cfg, load, store, dedup, pipes, calls, queue, evicted, other>>

\* update: the cache and the key are found, cache.get(key) is called
withExtendableCachingAsyncUpdate(target, toValue) ==
  /\ UserRunning
  /\ Len(ops) < load.ops
  /\ LET cache == getCacheFromCacheChoiceOrFromForKeyArgs(target, "update")
         op == [NewOp("update", target) EXCEPT !.toValue = toValue]
     IN  ops' = Append(ops, IF cache \notin Caches THEN [op EXCEPT !.error = cache]
                            ELSE [op EXCEPT !.cache = cache, !.key = TargetKey(target),
                                            !.pc = "get"])
  /\ UNCHANGED <<cfg, load, store, dedup, pipes, calls, queue, evicted, other>>

\* const cachedValue = await cache.get(key); newValue = await toValue(...);
\* cache.set(key, serializeValue(newValue), { secondsUntilExpiration }) is called
UpdateGetResolves(j) ==
  /\ queue = <<>>
  /\ ops[j].pc = "get"
  /\ LET cachedValue == cacheGet(Backends[ops[j].cache], ops[j].key)
         deserializedCachedOutput ==
           IF cachedValue # Undef THEN deserializeValue(cachedValue) ELSE Undef
     IN  ops' = [ops EXCEPT ![j].cachedValue = cachedValue,
                            ![j].fromCachedOutput =
                               IF isAFunction(ops[j].toValue) THEN deserializedCachedOutput
                               ELSE NA,
                            ![j].newValue =
                               IF isAFunction(ops[j].toValue)
                               THEN Times2(deserializedCachedOutput) ELSE ops[j].toValue,
                            ![j].expiration = expiration,
                            ![j].pc = "set"]
  /\ UNCHANGED <<cfg, load, store, dedup, pipes, calls, queue, evicted, other>>

\* the cache.set of an invalidate or an update is done, and the operation with it
ExtendableSetResolves(j) ==
  /\ queue = <<>>
  /\ ops[j].pc = "set"
  /\ LET value == IF ops[j].trigger = "invalidate" THEN Undef
                  ELSE serializeValue(ops[j].newValue)
     IN  /\ store' = IF ops[j].cache = "primary" THEN cacheSet(store, ops[j].key, value)
                     ELSE store
         /\ other' = IF ops[j].cache = "other" THEN cacheSet(other, ops[j].key, value)
                     ELSE other
         /\ ops' = [ops EXCEPT ![j].wrote = value, ![j].pc = "done",
                               ![j].after = [primary |-> store', other |-> other'],
                               ![j].inFlight = InFlight(ops[j].key),
                               ![j].doneAt = Len(calls), ![j].opsAt = Len(ops)]
  /\ UNCHANGED <<cfg, load, dedup, pipes, calls, queue, evicted>>

ExtendableAsyncConfigs == {Config("async", "async", "io", "noOp", NoEnv)}

\* one input is called and its entry invalidated or updated meanwhile, or the
\* entry is invalidated and updated by operations that overlap, over a
\* backend that may hold the entry before
ExtendableAsyncLoads ==
  {[names |-> {"casey"}, warm |-> warm, calls |-> MaxAsyncCalls, evicts |-> 0, defers |-> 0,
    ops |-> MaxOps] : warm \in {{}, WarmKeys}} \cup
  {[names |-> {"casey"}, warm |-> warm, calls |-> 0, evicts |-> 0, defers |-> 0,
    ops |-> MaxOps + 1] : warm \in {{}, WarmKeys}}

InitExtendableAsync ==
  /\ cfg \in ExtendableAsyncConfigs
  /\ load \in ExtendableAsyncLoads
  /\ store = [k \in AllKeys |-> IF k \in load.warm THEN serializeValue(Stale) ELSE Undef]
  /\ dedup = [k \in Entries |-> 0]
  /\ pipes = <<>>
  /\ calls = <<>>
  /\ queue = <<>>
  /\ evicted = [keys |-> {}, ever |-> {}, count |-> 0]
  /\ other = [k \in AllKeys |-> Undef]
  /\ ops = <<>>

NextExtendableAsync ==
  \/ \E args \in Args : logicWithAsyncCacheAndInMemoryRequestDeduplication(1, args, NA)
  \/ RunFinally
  \/ RunSettle(FALSE)
  \/ \E i \in 1..Len(pipes) : CacheGetResolves(i, NA)
  \/ \E i \in 1..Len(pipes) : LogicSettles(i, "Math.random()")
  \/ \E i \in 1..Len(pipes) : CacheSetResolves(i)
  \/ \E i \in 1..Len(pipes) : CacheRegetResolves(i)
  \/ \E target \in Targets : withExtendableCachingAsyncInvalidate(target)
  \/ \E target \in Targets : withExtendableCachingAsyncUpdate(target, Doubler)
  \/ \E j \in 1..Len(ops) : UpdateGetResolves(j)
  \/ \E j \in 1..Len(ops) : ExtendableSetResolves(j)

SpecExtendableAsync == InitExtendableAsync /\ [][NextExtendableAsync]_vars

(***************************************************************************)
(* The asynchronous wrapper under the scheduling of the event loop: every  *)
(* queued microtask runs, and every cache.get, cache.set and logic that    *)
(* was called settles.  The caller need not make any further call.         *)
(***************************************************************************)
Settling ==
  \/ \E out \in Outcomes \cup {NA} : RunContinuation(out)
  \/ RunFinally
  \/ RunSettle(FALSE)
  \/ UserJobEnd
  \/ \E i \in 1..Len(pipes), out \in Outcomes \cup {NA} : CacheGetResolves(i, out)
  \/ \E i \in 1..Len(pipes), out \in Outcomes : LogicSettles(i, out)
  \/ \E i \in 1..Len(pipes) : CacheSetResolves(i)
  \/ \E i \in 1..Len(pipes) : CacheRegetResolves(i)

\* the asynchronous wrapper over a backend that answers or fails
NextSettling ==
  \/ \E instance \in Instances, args \in Args, out \in Outcomes \cup {NA} :
       logicWithAsyncCacheAndInMemoryRequestDeduplication(instance, args, out)
  \/ UserDefer
  \/ Settling

InitSettling == InitFaults /\ cfg.wrapper = "async"

SpecSettling == InitSettling /\ [][NextSettling]_vars /\ WF_vars(Settling)
(***************************************************************************)
(* Properties of the wrappers, over the recorded runs and calls.            *)
(***************************************************************************)
PipesOf(key) == {i \in 1..Len(pipes) : pipes[i].key = key}

CallsOf(key) == {c \in 1..Len(calls) : calls[c].key = key}

\* the runs of the key that invoked the wrapped logic
LogicInvocations(key) == {i \in PipesOf(key) : pipes[i].invoked}

\* the runs of the key that wrote to the primary cache
Writes(key) == {i \in PipesOf(key) : pipes[i].wrote # NA}

CallSettled(c) == calls[c].state = "settled"

CallPipe(c) == pipes[calls[c].pipe]

CallResult(c) == CallPipe(c).result

\* every call of the key was issued after the calls before it had settled
Sequential(key) == \A c, d \in CallsOf(key) : c < d => c \in calls[d].prior

\* every call of the key was issued while none of them had settled
Concurrent(key) == \A c, d \in CallsOf(key) : c \notin calls[d].prior

NoBypass == \A args \in Args : ~bypassGet(args) /\ ~bypassSet(args)

DeduplicationOn == ~defaultShouldBypassGetMethod /\ ~defaultShouldBypassSetMethod

\* the primary cache answers after I/O: cache.get suspends
GetSuspends == cfg.wrapper = "async" /\ cfg.cacheKind = "async"

\* C1 Deduplication under concurrency: with the asynchronous wrapper over a
\* cache whose get suspends, calls with the same input that were all issued
\* while none of them had settled share one run: the logic is invoked once, one
\* write for the key reaches the primary cache, and all calls resolve to the
\* same value.
C1_DeduplicationUnderConcurrency ==
  \A key \in AllKeys :
    (GetSuspends /\ NoBypass /\ DeduplicationOn /\ Concurrent(key)) =>
      /\ Cardinality({calls[c].pipe : c \in CallsOf(key)}) <= 1
      /\ Cardinality(LogicInvocations(key)) <= 1
      /\ Cardinality(Writes(key)) <= 1
      /\ \A c, d \in CallsOf(key) :
           (CallSettled(c) /\ CallSettled(d)) => CallResult(c) = CallResult(d)
      /\ \A c \in CallsOf(key) :
           (CallSettled(c) /\ CallPipe(c).firstGet = Undef) =>
             /\ Cardinality(LogicInvocations(key)) = 1
             /\ CallPipe(c).output # Err =>
                  /\ Cardinality(Writes(key)) = 1
                  /\ CallPipe(c).wrote = serializeValue(CallPipe(c).output)

\* three calls issued together on a cold key have all resolved to the number
\* that one run of the logic returned
C1_Witness ==
  \E key \in AllKeys :
    /\ GetSuspends /\ NoBypass /\ DeduplicationOn /\ Concurrent(key)
    /\ Cardinality(CallsOf(key)) >= 3
    /\ \A c \in CallsOf(key) : CallSettled(c) /\ CallResult(c) = Random(1)
    /\ Cardinality(Writes(key)) = 1

\* the runs of the key that are in progress
InProgress(key) == {i \in PipesOf(key) : ~Settled(pipes[i])}

\* C2 Single pipeline per key: at every reachable state at most one run of the
\* primary get/compute/set pipeline is in progress per key, whatever the
\* interleaving of the calls (stated here for the configurations in which no
\* environment flag bypasses the deduplication cache).
C2_SinglePipelinePerKey ==
  \A key \in AllKeys :
    DeduplicationOn => Cardinality(InProgress(key)) <= 1

\* the backend held no entry of the key when the wrapper was constructed
Cold(key) == key \notin load.warm

\* no other party has set the entry of the key to undefined
Untouched(key) == key \notin evicted.ever

\* no run of the logic for the key has thrown, rejected or returned undefined
ReturnsDefined(key) == \A i \in LogicInvocations(key) : pipes[i].output \notin {Undef, Err}

\* C3 Idempotent hit: with either wrapper over a fixed cache, with no bypass
\* and a logic whose output is not undefined, calls with the same input made one
\* after the other invoke the logic once (not at all when the backend held the
\* entry already), and every call returns what the first one returned.
C3_IdempotentHit ==
  \A key \in AllKeys :
    (NoBypass /\ Sequential(key) /\ Untouched(key) /\ ReturnsDefined(key)) =>
      /\ Cardinality(LogicInvocations(key)) <= 1
      /\ (\E c \in CallsOf(key) : CallSettled(c)) =>
           Cardinality(LogicInvocations(key)) = (IF Cold(key) THEN 1 ELSE 0)
      /\ \A c, d \in CallsOf(key) :
           (CallSettled(c) /\ CallSettled(d)) => CallResult(c) = CallResult(d)

\* the asynchronous wrapper has answered four calls made one after the other
\* on a cold key, with one run of the logic
C3_Witness ==
  \E key \in AllKeys :
    /\ cfg.wrapper = "async" /\ NoBypass /\ Sequential(key) /\ Untouched(key) /\ Cold(key)
    /\ Cardinality(CallsOf(key)) >= 4
    /\ \A c \in CallsOf(key) : CallSettled(c) /\ CallResult(c) = Random(1)
    /\ Cardinality(LogicInvocations(key)) = 1

\* the inputs the decorated function was called with
CalledArgs == {calls[c].args : c \in 1..Len(calls)}

\* the runs that invoked the wrapped logic
AllLogicInvocations == {i \in 1..Len(pipes) : pipes[i].invoked}

\* what only the i-th run of the logic can have produced
ValuesOfRun(i) == {Random(i), PromiseResolved(i), PromiseRejected(i)}

\* C4 Per-key isolation: over calls with inputs of distinct keys, in any order,
\* the logic is invoked once per distinct input called (whose entry the backend
\* did not hold already), and no call returns a value computed for another
\* input.
C4_PerKeyIsolation ==
  /\ (NoBypass /\ \A key \in AllKeys : Untouched(key) /\ ReturnsDefined(key)) =>
       /\ Cardinality(AllLogicInvocations) <=
            Cardinality({args \in CalledArgs : Cold(KeyOf(args))})
       /\ (\A c \in 1..Len(calls) : CallSettled(c)) =>
            Cardinality(AllLogicInvocations) =
              Cardinality({args \in CalledArgs : Cold(KeyOf(args))})
  /\ \A c \in 1..Len(calls), i \in 1..Len(pipes) :
       (CallSettled(c) /\ CallResult(c) \in ValuesOfRun(i)) =>
         pipes[i].args = calls[c].args

\* the synchronous wrapper was called for casey, katya and casey again: two
\* runs of the logic, and the third call returned what the first did
C4_Witness ==
  /\ cfg.wrapper = "sync" /\ NoBypass /\ load.warm = {}
  /\ Len(calls) = 3
  /\ calls[1].args # calls[2].args /\ calls[3].args = calls[1].args
  /\ CallResult(1) = Random(1) /\ CallResult(2) = Random(2) /\ CallResult(3) = Random(1)
  /\ Cardinality(AllLogicInvocations) = 2

\* the call missed, wrote to the cache and read a value back
Populated(c) ==
  /\ CallPipe(c).pc = "resolved"
  /\ CallPipe(c).invoked
  /\ CallPipe(c).reget \notin {NA, Undef}

\* the call was answered from the entry that call c read back
HitOn(d, c) ==
  /\ calls[d].key = calls[c].key
  /\ calls[d].pipe > calls[c].pipe
  /\ CallPipe(d).pc = "resolved"
  /\ ~CallPipe(d).invoked
  /\ CallPipe(d).firstGet = CallPipe(c).reget

\* C5 Serde round-trip equivalence: a call that misses and populates the key
\* returns the deserialization of the value it read back from the cache after
\* the set, and so returns what a following call that hits returns, also when
\* the deserialization is lossy.
C5_SerdeRoundTripEquivalence ==
  \A c \in 1..Len(calls) :
    Populated(c) =>
      /\ CallResult(c) = deserializeValue(CallPipe(c).reget)
      /\ \A d \in 1..Len(calls) : HitOn(d, c) => CallResult(d) = CallResult(c)

\* with the lossy deserialization, a call that populated the key with a number
\* and the call that hit after it have both returned the balloon
C5_Witness ==
  \E c, d \in 1..Len(calls) :
    /\ cfg.serde = "lossy"
    /\ Populated(c) /\ HitOn(d, c)
    /\ CallSettled(c) /\ CallSettled(d)
    /\ CallPipe(c).output \in Numbers
    /\ CallResult(c) = Balloon /\ CallResult(d) = Balloon

\* every run of the logic for the key returned null
ReturnsNull(key) == \A i \in LogicInvocations(key) : pipes[i].output \in {Null, NA}

\* the deserialization gives back what was serialized
FaithfulSerde == cfg.serde # "lossy"

\* C6 Null is a present value: when the logic returns null, the null is stored
\* as a present entry, a call that finds it is a hit that does not run the
\* logic, and so repeated calls invoke the logic once and all return null:
\* nothing turns the null into undefined.
C6_NullIsPresentValue ==
  \A key \in AllKeys :
    (ReturnsNull(key) /\ Untouched(key) /\ Cold(key)) =>
      /\ \A i \in PipesOf(key) :
           /\ pipes[i].wrote # NA =>
                pipes[i].wrote # Undef /\ pipes[i].wrote = serializeValue(Null)
           /\ pipes[i].firstGet \notin {NA, Undef} =>
                /\ pipes[i].firstGet = serializeValue(Null)
                /\ ~pipes[i].invoked
                /\ pipes[i].pc = "resolved"
      /\ \A c \in CallsOf(key) :
           (CallSettled(c) /\ FaithfulSerde) => CallResult(c) = Null
      /\ NoBypass => Cardinality(LogicInvocations(key)) <= 1

\* three calls on a cold key have returned null with one run of the logic, and
\* the entry holds the serialized null
C6_Witness ==
  \E key \in AllKeys :
    /\ NoBypass /\ ReturnsNull(key) /\ Untouched(key) /\ Cold(key) /\ FaithfulSerde
    /\ Cardinality(CallsOf(key)) >= 3
    /\ \A c \in CallsOf(key) : CallSettled(c) /\ CallResult(c) = Null
    /\ Cardinality(LogicInvocations(key)) = 1
    /\ store[key] = serializeValue(Null)

\* every run of the logic for the key returned undefined
ReturnsUndefined(key) == \A i \in LogicInvocations(key) : pipes[i].output \in {Undef, NA}

C8_ExternalInvalidation ==
  \A i \in 1..Len(pipes) :
    pipes[i].afterEvict =>
      /\ pipes[i].firstGet \in {NA, Undef}
      /\ pipes[i].pc \notin {"start", "get"} => pipes[i].invoked
      /\ (Settled(pipes[i]) /\ pipes[i].output # Err /\ ~bypassSet(pipes[i].args)) =>
           pipes[i].wrote = serializeValue(pipes[i].output)

\* a key was populated, set to undefined by another party, and the next call
\* has computed a new number, which the entry now holds
C8_Witness ==
  \E i, j \in 1..Len(pipes) :
    /\ j < i /\ pipes[j].key = pipes[i].key
    /\ pipes[j].output = Random(j)
    /\ pipes[i].afterEvict
    /\ pipes[i].pc = "resolved"
    /\ pipes[i].output = Random(i)
    /\ store[pipes[i].key] = serializeValue(Random(i))

\* the reactions that are queued to remove the promise of run i
QueuedFinally(i) ==
  {n \in 1..Len(queue) : queue[n].kind = "finally" /\ calls[queue[n].id].pipe = i}

\* C9 Deduplication entry cleanup: once a run settles, resolved or rejected,
\* the removal of its promise from the deduplication cache is due before
\* anything else runs for its callers; the promise is removed before the
\* promise of a caller settles; and a call made after a call with the same key
\* settled gets a later run, not the one that call got.
C9_DedupEntryCleanup ==
  /\ \A key \in AllKeys :
       (dedup[key] # 0 /\ Settled(pipes[dedup[key]])) => QueuedFinally(dedup[key]) # {}
  /\ \A c \in 1..Len(calls) :
       calls[c].state \in {"invalidated", "settled"} =>
         Settled(CallPipe(c)) /\ dedup[calls[c].key] # calls[c].pipe
  /\ \A c, d \in 1..Len(calls) :
       (calls[c].key = calls[d].key /\ c \in calls[d].prior) =>
         calls[d].pipe > calls[c].pipe

\* a call was rejected, and a call made after it settled got a run of its own
\* and has settled; the deduplication cache holds nothing for the key
C9_Witness ==
  \E c, d \in 1..Len(calls) :
    /\ cfg.wrapper = "async"
    /\ calls[c].key = calls[d].key /\ c \in calls[d].prior
    /\ CallPipe(c).pc = "rejected"
    /\ CallSettled(d)
    /\ dedup[calls[c].key] = 0

\* the computation of the run failed: the logic threw or rejected, or gave the
\* synchronous wrapper a promise that rejects
Failed(p) == p.output = Err \/ p.output \in RejectedPromises

\* C10 No entry written for a failed computation: with either wrapper, a run
\* whose logic throws or rejects writes no entry for the key.
C10_NoEntryForFailedComputation ==
  \A i \in 1..Len(pipes) : Failed(pipes[i]) => pipes[i].wrote = NA


(***************************************************************************)
(* Errors: of the wrapped logic, and of the backend of the primary cache.  *)
(***************************************************************************)
\* the runs whose logic threw (synchronous wrapper) or rejected (asynchronous)
LogicFailed(i) == pipes[i].invoked /\ pipes[i].output = Err

\* C11 Logic errors propagate verbatim without retry: a run whose logic threw
\* (synchronous wrapper) or rejected (asynchronous wrapper) ends there, thrown
\* or rejected with that same error, having written nothing and read nothing
\* back; every call that was given the run fails with that error; and the
\* logic was invoked once for the run, so the invocations for a key never
\* outnumber its calls.
C11_LogicErrorsPropagate ==
  /\ \A i \in 1..Len(pipes) :
       pipes[i].output = Err =>
         /\ pipes[i].invoked
         /\ pipes[i].pc = "rejected"
         /\ pipes[i].result = Err
         /\ pipes[i].wrote = NA /\ pipes[i].reget = NA /\ ~pipes[i].warned
         /\ \A c \in 1..Len(calls) :
              (calls[c].pipe = i /\ CallSettled(c)) => CallResult(c) = Err
  /\ \A key \in AllKeys :
       Cardinality(LogicInvocations(key)) <= Cardinality(CallsOf(key))

\* a call of the asynchronous wrapper has rejected with the error its logic
\* rejected with, and the logic ran once for the key
C11_Witness ==
  \E c \in 1..Len(calls) :
    /\ cfg.wrapper = "async"
    /\ CallSettled(c)
    /\ LogicFailed(calls[c].pipe)
    /\ CallPipe(c).pc = "rejected" /\ CallResult(c) = Err
    /\ Cardinality(LogicInvocations(calls[c].key)) = 1

\* the calls that were given run i
CallsOn(i) == {c \in 1..Len(calls) : calls[c].pipe = i}

\* the calls issued after a call that was given run i had settled
LaterCalls(i) ==
  {d \in 1..Len(calls) : \E c \in CallsOn(i) : c \in calls[d].prior /\ calls[c].key = calls[d].key}

\* the job of the given kind that is queued for call c
Queued(kind, c) == \E n \in 1..Len(queue) : queue[n].kind = kind /\ queue[n].id = c

\* what C12 says of the callers of a rejected run and of the deduplication
\* cache: each caller rejects with the error of the run (its finally reaction,
\* then the settling of its promise, are queued until it has), the run's
\* promise is out of the deduplication cache once a caller is past its
\* finally, and a later call is given a later run
SharedRejection(i) ==
  /\ pipes[i].result \in {Err, IOErr}
  /\ pipes[i].result = Err <=> pipes[i].output = Err
  /\ \A c \in CallsOn(i) :
       /\ calls[c].state = "pending" => Queued("finally", c)
       /\ calls[c].state = "invalidated" => Queued("settle", c)
       /\ calls[c].state \in {"invalidated", "settled"} => dedup[pipes[i].key] # i
       /\ CallSettled(c) => CallResult(c) = pipes[i].result
  /\ \A d \in LaterCalls(i) : calls[d].pipe > i

\* the run the first get of which was answered
GetAnswered(j) == pipes[j].firstGet # NA

\* C12 Shared rejection under deduplication (amended): when the run that
\* calls of the asynchronous wrapper share rejects, with the error of the
\* logic or of the backend, every one of the calls rejects with that error,
\* the promise of the run leaves the deduplication cache, and a later call
\* with the same key is given a new run.  The new run invokes the logic again
\* when no run has written the entry; when the failure was that of the get
\* after the set, the entry had been written, and the new run is a hit that
\* does not invoke the logic.
C12_SharedRejection ==
  \A i \in 1..Len(pipes) :
    (cfg.wrapper = "async" /\ pipes[i].pc = "rejected") =>
      /\ SharedRejection(i)
      /\ \A d \in LaterCalls(i) :
           GetAnswered(calls[d].pipe) =>
             /\ Writes(pipes[i].key) = {} => CallPipe(d).invoked
             /\ Writes(pipes[i].key) = {i} => ~CallPipe(d).invoked

\* C12 as stated: the run of a later call always invokes the logic again
C12_AsStated ==
  \A i \in 1..Len(pipes) :
    (cfg.wrapper = "async" /\ pipes[i].pc = "rejected") =>
      /\ SharedRejection(i)
      /\ \A d \in LaterCalls(i) : GetAnswered(calls[d].pipe) => CallPipe(d).invoked

\* two calls shared a run that rejected because cache.set failed, both have
\* rejected with that error, and a call made after them got a run of its own
\* that invoked the logic
C12_Witness ==
  \E i \in 1..Len(pipes), d \in 1..Len(calls) :
    /\ cfg.wrapper = "async"
    /\ pipes[i].pc = "rejected" /\ pipes[i].result = IOErr /\ pipes[i].invoked
    /\ Cardinality(CallsOn(i)) >= 2
    /\ \A c \in CallsOn(i) : CallSettled(c) /\ c \in calls[d].prior
    /\ d \in LaterCalls(i)
    /\ CallPipe(d).invoked
    /\ dedup[pipes[i].key] # i

\* the run in which the backend fails, when the run exists
FaultRun == IF cfg.fault.run \in 1..Len(pipes) THEN {cfg.fault.run} ELSE {}

\* C13 Backend I/O errors propagate unmodified: with either wrapper, a run in
\* which cache.get (the first read, or the read after the set) or cache.set
\* throws or rejects fails with that same error and goes no further: a failed
\* first get is followed by no invocation of the logic, a failed set by no
\* write and no re-read, a failed re-read by no warning and no value.  The
\* operation is not tried again, every call given the run fails with the
\* error, and no run fails with the error of the backend but that one.
C13_BackendErrorsPropagate ==
  /\ \A i \in FaultRun : \A c \in CallsOn(i) :
       (pipes[i].pc = "rejected" /\ CallSettled(c)) => CallResult(c) = pipes[i].result
  /\ \A i \in FaultRun :
       /\ cfg.fault.op = "get" =>
            /\ ~pipes[i].invoked /\ pipes[i].firstGet = NA /\ pipes[i].wrote = NA
            /\ pipes[i].pc \in {"start", "get", "rejected"}
            /\ pipes[i].pc = "rejected" => pipes[i].result = IOErr
       /\ (cfg.fault.op = "set" /\ pipes[i].invoked /\ pipes[i].output \notin {NA, Err}) =>
            /\ pipes[i].wrote = NA /\ pipes[i].reget = NA
            /\ pipes[i].pc \in {"set", "rejected"}
            /\ pipes[i].pc = "rejected" => pipes[i].result = IOErr
       /\ (cfg.fault.op = "reget" /\ pipes[i].wrote # NA /\ pipes[i].output # Undef) =>
            /\ pipes[i].reget = NA /\ ~pipes[i].warned
            /\ pipes[i].pc \in {"set", "reget", "rejected"}
            /\ pipes[i].pc = "rejected" => pipes[i].result = IOErr
  /\ \A i \in 1..Len(pipes) :
       pipes[i].result = IOErr =>
         /\ i \in FaultRun /\ cfg.fault.op \in {"get", "set", "reget"}
         /\ pipes[i].pc = "rejected"

\* a call of the asynchronous wrapper has rejected with the error that the
\* cache.get after the set threw, the entry having been written
C13_Witness ==
  \E i \in FaultRun : \E c \in CallsOn(i) :
    /\ cfg.wrapper = "async" /\ cfg.fault.op = "reget"
    /\ CallSettled(c)
    /\ pipes[i].pc = "rejected" /\ CallResult(c) = IOErr
    /\ pipes[i].invoked /\ pipes[i].wrote # NA /\ pipes[i].reget = NA

\* the run was a miss that called cache.set and returned a value
MissThatSet(i) == pipes[i].pc = "resolved" /\ pipes[i].invoked /\ pipes[i].wrote # NA

\* the run read back nothing after its set: the get-after-set violation
ReadBackNothing(i) == pipes[i].output \notin {NA, Err, Undef} /\ pipes[i].reget = Undef

\* the value the run returned is the output of the logic as it was: not what
\* deserializeValue gave for a value read back
ReturnedOutput(i) == pipes[i].reget \in {NA, Undef} /\ pipes[i].result = pipes[i].output

\* C14 Graceful get-after-set violation (amended): when the output of the
\* logic is not undefined and the read after the write returns undefined, the
\* run does not fail: it logs a warning and returns the output of the logic,
\* and so do the calls given the run.  A warning is logged in this case only.
\* Of the misses that called cache.set, this one and the miss whose output is
\* undefined are the two that return the output as it is; every other returns
\* deserializeValue of what it read back.
C14_GracefulGetAfterSetViolation ==
  \A i \in 1..Len(pipes) :
    /\ ReadBackNothing(i) =>
         /\ pipes[i].pc = "resolved" /\ pipes[i].warned
         /\ pipes[i].result = pipes[i].output
         /\ \A c \in CallsOn(i) : CallSettled(c) => CallResult(c) = pipes[i].output
    /\ pipes[i].warned => ReadBackNothing(i)
    /\ MissThatSet(i) =>
         \/ ReadBackNothing(i) /\ ReturnedOutput(i)
         \/ pipes[i].output = Undef /\ pipes[i].reget = NA /\ ReturnedOutput(i)
         \/ /\ isNotUndefined(pipes[i].reget) /\ pipes[i].reget # NA
            /\ pipes[i].result = deserializeValue(pipes[i].reget)

\* C14 as stated: a miss that called cache.set returns the output of the logic
\* as it is only when the read after the write returned undefined
C14_AsStated ==
  \A i \in 1..Len(pipes) :
    /\ ReadBackNothing(i) =>
         /\ pipes[i].pc = "resolved" /\ pipes[i].warned
         /\ pipes[i].result = pipes[i].output
    /\ (MissThatSet(i) /\ ReturnedOutput(i)) => ReadBackNothing(i)

\* over the lossy serde a call of the asynchronous wrapper returned the number
\* its logic gave, with a warning, the entry it set not being there to be read
C14_Witness ==
  \E i \in 1..Len(pipes) : \E c \in CallsOn(i) :
    /\ cfg.wrapper = "async" /\ cfg.serde = "lossy"
    /\ CallSettled(c)
    /\ ReadBackNothing(i) /\ pipes[i].warned
    /\ pipes[i].wrote # NA
    /\ CallResult(c) = Random(i) /\ CallResult(c) # deserializeValue(pipes[i].wrote)

(***************************************************************************)
(* withExtendableCache: invalidate and update.                             *)
(***************************************************************************)
\* the operations that did not throw
Done(n) == ops[n].error = NA

\* the call c executes on the cache and the key of operation n
Executes(c, n) ==
  calls[c].key = ops[n].key /\ getCacheFromCacheChoice(calls[c].args) = ops[n].cache

\* the next execute after operation n on its cache and key: no call and no
\* operation came between them for that cache and key
NextExecute(n) ==
  {c \in 1..Len(calls) :
     /\ c > ops[n].at /\ Executes(c, n)
     /\ \A d \in (ops[n].at + 1)..(c - 1) : ~Executes(d, n)
     /\ \A m \in (n + 1)..Len(ops) :
          ops[m].at >= c \/ ~Done(m) \/ ops[m].key # ops[n].key \/ ops[m].cache # ops[n].cache}

\* operation n changed nothing but the entry of its key in its cache
WroteOnlyItsKey(n) ==
  \A cache \in Caches, key \in AllKeys :
    (cache # ops[n].cache \/ key # ops[n].key) =>
      ops[n].after[cache][key] = ops[n].before[cache][key]

\* C15 Invalidate: an invalidate that completed, by input or by key, has
\* written undefined to the key execute derives and to no other; the next
\* execute for the key finds nothing and invokes the logic again; and
\* invalidate itself starts no run of the logic (every run is that of a call).
C15_Invalidate ==
  /\ Len(pipes) = Len(calls)
  /\ \A n \in 1..Len(ops) :
       (ops[n].trigger = "invalidate" /\ Done(n)) =>
         /\ ops[n].wrote = Undef
         /\ ops[n].key = TargetKey(ops[n].target)
         /\ ops[n].after[ops[n].cache][ops[n].key] = Undef
         /\ WroteOnlyItsKey(n)
         /\ \A c \in NextExecute(n) :
              /\ CallPipe(c).firstGet = Undef
              /\ CallPipe(c).invoked
              /\ CallPipe(c).output = Random(calls[c].pipe)

\* an entry that a call had populated was invalidated by key, and the next
\* call for the key ran the logic again and returned another number
C15_Witness ==
  \E n \in 1..Len(ops) : \E b \in 1..Len(calls) : \E c \in NextExecute(n) :
    /\ ops[n].trigger = "invalidate" /\ Done(n)
    /\ ops[n].target.by = "forKey"
    /\ b <= ops[n].at /\ Executes(b, n) /\ CallPipe(b).wrote # NA
    /\ ops[n].before[ops[n].cache][ops[n].key] = CallPipe(b).wrote
    /\ CallPipe(c).invoked /\ CallResult(c) # CallResult(b)

\* C16 Key derivation parity: with the default and with a custom key
\* serializer, the key that invalidate({ forInput }) and update({ forInput })
\* write to is the key that execute reads and writes for that input: it is the
\* key of every run of a call with that input, and what the operation wrote is
\* what the next execute with that input reads.
C16_KeyDerivationParity ==
  \A n \in 1..Len(ops) :
    (Done(n) /\ hasForInputProperty(ops[n].target)) =>
      /\ ops[n].key = KeyOf(ops[n].target.forInput)
      /\ ops[n].key \in AllKeys
      /\ \A c \in 1..Len(calls) :
           calls[c].args = ops[n].target.forInput =>
             /\ CallPipe(c).key = ops[n].key
             /\ c \in NextExecute(n) => CallPipe(c).firstGet = ops[n].wrote

\* with the custom key serializer an update by input wrote the literal, and
\* the next call with that input read it under the same key
C16_Witness ==
  \E n \in 1..Len(ops) : \E c \in NextExecute(n) :
    /\ cfg.keySerde = "custom"
    /\ ops[n].trigger = "update" /\ Done(n) /\ hasForInputProperty(ops[n].target)
    /\ calls[c].args = ops[n].target.forInput
    /\ CallPipe(c).key = ops[n].key
    /\ CallPipe(c).firstGet = serializeValue(Literal)

\* C17 Update with a literal: an update to a value that is not undefined, by
\* input or by key, writes the serialized value to the addressed key and to no
\* other, without calling anything; the next execute for the key is a hit that
\* returns deserialize(serialize(value)) and does not invoke the logic.
C17_UpdateWithLiteral ==
  \A n \in 1..Len(ops) :
    (ops[n].trigger = "update" /\ Done(n) /\ ops[n].toValue = Literal) =>
      /\ ops[n].newValue = Literal /\ ops[n].fromCachedOutput = NA
      /\ ops[n].wrote = serializeValue(Literal)
      /\ ops[n].after[ops[n].cache][ops[n].key] = serializeValue(Literal)
      /\ WroteOnlyItsKey(n)
      /\ Len(pipes) = Len(calls)
      /\ \A c \in NextExecute(n) :
           /\ ~CallPipe(c).invoked
           /\ CallPipe(c).pc = "resolved"
           /\ CallResult(c) = deserializeValue(serializeValue(Literal))

\* over an entry that a call had populated, an update by input wrote the
\* literal, and the next call for the input returned it without running the
\* logic
C17_Witness ==
  \E n \in 1..Len(ops) : \E b \in 1..Len(calls) : \E c \in NextExecute(n) :
    /\ ops[n].trigger = "update" /\ Done(n) /\ ops[n].toValue = Literal
    /\ hasForInputProperty(ops[n].target)
    /\ b <= ops[n].at /\ Executes(b, n) /\ CallPipe(b).invoked
    /\ ~CallPipe(c).invoked
    /\ CallResult(c) = Literal /\ CallResult(b) = Random(calls[b].pipe)

\* what the cache of operation n held under its key before the operation
HeldBefore(n) == ops[n].before[ops[n].cache][ops[n].key]

\* C18 Update with a derivation: an update whose toValue is a function reads
\* the entry of the key, gives the function the deserialized value (undefined
\* when the key holds nothing), and stores the serialized result under the
\* key; the next execute for the key is a hit on that result, and after a
\* cached number v and toValue = double it returns v * 2 without invoking the
\* logic.
C18_UpdateWithDerivation ==
  \A n \in 1..Len(ops) :
    (ops[n].trigger = "update" /\ Done(n) /\ ops[n].toValue = Doubler) =>
      /\ ops[n].cachedValue = HeldBefore(n)
      /\ ops[n].fromCachedOutput =
           IF HeldBefore(n) = Undef THEN Undef ELSE deserializeValue(HeldBefore(n))
      /\ ops[n].newValue = Times2(ops[n].fromCachedOutput)
      /\ ops[n].wrote = serializeValue(ops[n].newValue)
      /\ ops[n].after[ops[n].cache][ops[n].key] = ops[n].wrote
      /\ WroteOnlyItsKey(n)
      /\ \A c \in NextExecute(n) :
           /\ ~CallPipe(c).invoked
           /\ CallResult(c) = deserializeValue(ops[n].wrote)
           /\ \A v \in Numbers :
                (FaithfulSerde /\ HeldBefore(n) = serializeValue(v)) =>
                  CallResult(c) = "2*" \o v

\* a call cached the number its logic returned, an update doubled it, and the
\* next call returned the double without running the logic
C18_Witness ==
  \E n \in 1..Len(ops) : \E b \in 1..Len(calls) : \E c \in NextExecute(n) :
    /\ ops[n].trigger = "update" /\ Done(n) /\ ops[n].toValue = Doubler
    /\ b <= ops[n].at /\ Executes(b, n)
    /\ CallResult(b) = Random(calls[b].pipe)
    /\ ops[n].fromCachedOutput = CallResult(b)
    /\ ~CallPipe(c).invoked
    /\ CallResult(c) = "2*" \o CallResult(b)

\* operation n touched no cache: no get, no set, and both caches as before
TouchedNoCache(n) ==
  /\ ops[n].cache = NA /\ ops[n].cachedValue = NA /\ ops[n].wrote = NA
  /\ ops[n].after = ops[n].before

\* C19 By-key operation with a resolver cache choice: when the cache is taken
\* from the input of each call, an invalidate or update by key that names no
\* cache fails with the BadRequestError that names the operation, and no cache
\* is read or written; one that names a cache writes to that cache, and to no
\* other.
C19_ByKeyWithResolver ==
  \A n \in 1..Len(ops) :
    (cfg.choice = "resolver" /\ ~hasForInputProperty(ops[n].target)) =>
      /\ ops[n].target.cache = Undef =>
           /\ ops[n].error = BadRequestErrorFind(ops[n].trigger)
           /\ ops[n].error # BadRequestErrorFind(IF ops[n].trigger = "update"
                                                   THEN "invalidate" ELSE "update")
           /\ TouchedNoCache(n)
      /\ ops[n].target.cache # Undef =>
           /\ Done(n)
           /\ ops[n].cache = ops[n].target.cache
           /\ ops[n].key = ops[n].target.forKey
           /\ ops[n].after[ops[n].target.cache][ops[n].key] = ops[n].wrote
           /\ WroteOnlyItsKey(n)

\* with the cache taken from the context, a call populated the entry of the
\* key, and an update by key that named no cache threw and left the entry
C19_Witness ==
  \E n \in 1..Len(ops) : \E b \in 1..Len(calls) :
    /\ cfg.choice = "resolver"
    /\ ops[n].trigger = "update" /\ ~hasForInputProperty(ops[n].target)
    /\ ops[n].target.cache = Undef
    /\ ops[n].error = BadRequestErrorFind("update")
    /\ b <= ops[n].at /\ calls[b].key = ops[n].target.forKey /\ CallPipe(b).wrote # NA
    /\ store[calls[b].key] = CallPipe(b).wrote

\* the run did nothing: no cache get, no invocation of the logic, no cache set
DidNothing(p) ==
  p.firstGet = NA /\ ~p.invoked /\ p.output = NA /\ p.wrote = NA /\ p.reget = NA

\* C20 Cache resolution failure: when the cache is taken from the input of
\* each call and the input gives none, the call fails with a BadRequestError
\* before any cache get, any invocation of the logic and any cache set; when
\* the input gives a cache, or the cache option is a cache, no call fails so:
\* every call reads that cache, and a cache option that is a cache is the one
\* every call uses (the caller's other cache stays as it was).
C20_CacheResolutionFailure ==
  /\ \A c \in 1..Len(calls) :
       IF cfg.choice = "resolver" /\ calls[c].args.context # CtxWithCache
       THEN /\ CallPipe(c).pc = "rejected"
            /\ CallResult(c) = BadRequestErrorExtract
            /\ DidNothing(CallPipe(c))
       ELSE /\ CallResult(c) # BadRequestErrorExtract
            /\ CallPipe(c).firstGet # NA
            /\ CallPipe(c).wrote # NA => CallPipe(c).invoked
  /\ cfg.choice = "instance" =>
       /\ \A key \in AllKeys : other[key] = Undef
       /\ \A n \in 1..Len(ops) : Done(n) /\ ops[n].cache = "primary"

\* with the cache taken from the context, a call with a cache populated the
\* entry of a key, and a call for the same key without one failed, the entry
\* being as it was
C20_Witness ==
  \E b, c \in 1..Len(calls) :
    /\ cfg.choice = "resolver"
    /\ b < c /\ calls[b].key = calls[c].key
    /\ calls[b].args.context = CtxWithCache /\ CallPipe(b).wrote # NA
    /\ calls[c].args.context = Ctx
    /\ CallPipe(c).pc = "rejected" /\ CallResult(c) = BadRequestErrorExtract
    /\ store[calls[c].key] = CallPipe(b).wrote

(***************************************************************************)
(* The options of the wrapper: expiration and bypass.                      *)
(***************************************************************************)
\* the first get of the run answered a value that is not undefined
Hit(i) == pipes[i].firstGet \notin {NA, Undef}

\* the updates that reached their cache.set
UpdatesThatSet == {j \in 1..Len(ops) : ops[j].trigger = "update" /\ ops[j].wrote # NA}

\* C21 Expiration passthrough: every cache.set made by a run of either
\* wrapper on a miss, and every cache.set made by update, is given the options
\* { expiration } with the expiration the wrapper was constructed with
\* (absent, null or a duration), whatever the key, the bypass predicates and
\* the output; a run that has not set has passed no options.
C21_ExpirationPassthrough ==
  /\ \A i \in 1..Len(pipes) :
       IF pipes[i].wrote # NA THEN pipes[i].expiration = cfg.expiration
       ELSE pipes[i].expiration = NA
  /\ \A j \in UpdatesThatSet : ops[j].expiration = cfg.expiration

\* with a duration configured, a miss and an update have both set with that
\* duration
C21_Witness ==
  /\ cfg.expiration = "{ seconds: 3 }"
  /\ \E i \in 1..Len(pipes), j \in UpdatesThatSet :
       /\ pipes[i].invoked /\ pipes[i].wrote # NA
       /\ pipes[i].expiration = "{ seconds: 3 }"
       /\ ops[j].expiration = "{ seconds: 3 }"

\* the runs for whose input the set-bypass predicate is true and that reached
\* the logic
SetBypassed(ps) == {i \in 1..Len(ps) : bypassSet(ps[i].args) /\ ps[i].invoked}

\* the step is one of run i: it starts it or moves it on
StepOf(i) == IF i > Len(pipes) THEN TRUE ELSE pipes'[i] # pipes[i]

\* what a step leaves of the runs with set bypassed, and of the cache
C22_SetBypassStep ==
  /\ \A i \in SetBypassed(pipes') :
       /\ pipes'[i].wrote = NA /\ pipes'[i].expiration = NA /\ pipes'[i].reget = NA
       /\ ~pipes'[i].warned
       /\ pipes'[i].pc \in {"logic", "resolved", "rejected"}
       /\ pipes'[i].pc = "resolved" => pipes'[i].result = pipes'[i].output
       /\ pipes'[i].pc = "rejected" => pipes'[i].result = Err /\ pipes'[i].output = Err
       /\ StepOf(i) => store' = store

\* C22 Set-bypass leaves the cache untouched: a run for whose input the
\* set-bypass predicate is true (a predicate of the bypass option, or the
\* default with CACHE_BYPASS_SET=true) and that reached the logic returns the
\* output of the logic, or its error, without a cache.set and without a read
\* after it; and no step of such a run changes any entry of the cache, so
\* every entry is after the call what it was before, but for what other calls
\* did meanwhile.
C22_SetBypassLeavesCache == [][C22_SetBypassStep]_vars

\* a run with set bypassed (and get bypassed, so that it reached the logic
\* although the entry was populated) returned its fresh output, and the entry
\* is still the one the backend held before the wrapper was constructed
C22_Witness ==
  \E i \in SetBypassed(pipes) :
    /\ pipes[i].pc = "resolved"
    /\ pipes[i].result = pipes[i].output /\ pipes[i].output \in Numbers \ {Stale}
    /\ store[pipes[i].key] = serializeValue(Stale)

\* the runs for whose input the get-bypass predicate is true
GetBypassed(ps) == {i \in 1..Len(ps) : bypassGet(ps[i].args)}

\* the calls for whose input the get-bypass predicate is true
GetBypassedCalls == {c \in 1..Len(calls) : bypassGet(calls[c].args)}

\* the step is the one in which run i sets
SetOf(i) == pipes'[i].wrote # NA /\ (IF i > Len(pipes) THEN TRUE ELSE pipes[i].wrote = NA)

\* the deduplication cache is read before a call starts a run
DeduplicationReads == cfg.wrapper = "async" /\ ~defaultShouldBypassGetMethod

\* what a step leaves of the runs and calls with get bypassed
C23_GetBypassStep ==
  /\ \A i \in GetBypassed(pipes') :
       /\ pipes'[i].firstGet = NA /\ pipes'[i].invoked
       /\ (Settled(pipes'[i]) /\ ~bypassSet(pipes'[i].args)) =>
            pipes'[i].wrote = serializeValue(pipes'[i].output)
       /\ (SetOf(i) /\ pipes'[i].output # Undef) =>
            store'[pipes'[i].key] = serializeValue(pipes'[i].output)
  /\ ~DeduplicationReads =>
       \A c, d \in GetBypassedCalls' : c # d => calls'[c].pipe # calls'[d].pipe

\* C23 Get-bypass forces recompute (as amended): a run for whose input the
\* get-bypass predicate is true makes no cache.get before the logic and invokes
\* the logic, also when the entry is populated; with set not bypassed it sets
\* the serialized output, which for an output that is not undefined replaces
\* the stored entry.  Every such call of the synchronous wrapper is a run of
\* its own, and so is every such call of the asynchronous wrapper when the
\* deduplication cache is not read (the default predicate with
\* CACHE_BYPASS_GET=true).
C23_GetBypassForcesRecompute == [][C23_GetBypassStep]_vars

\* C23 as stated: the logic is invoked on every call for whose input the
\* get-bypass predicate is true, so no two such calls share a run.
C23_AsStated ==
  \A c, d \in GetBypassedCalls : c # d => calls[c].pipe # calls[d].pipe

\* over an entry the backend held, a run with get bypassed and set not bypassed
\* read nothing, invoked the logic and replaced the entry with its output
C23_Witness ==
  \E i \in GetBypassed(pipes) :
    /\ load.warm # {} /\ pipes[i].key \in load.warm
    /\ pipes[i].firstGet = NA /\ pipes[i].invoked
    /\ pipes[i].output \in Numbers \ {Stale}
    /\ pipes[i].pc = "resolved"
    /\ store[pipes[i].key] = serializeValue(pipes[i].output)

(***************************************************************************)
(* The default bypass predicates and the flags of the environment.         *)
(***************************************************************************)
\* the decision for an operation: its own flag compared with 'true' when that
\* flag counts, else the general flag compared with 'true' when that counts,
\* else false
Precedence(counts(_), own, general) ==
  IF counts(own) THEN own = "true"
  ELSE IF counts(general) THEN general = "true"
  ELSE FALSE

\* the flag is in the environment, with whatever value
IsSet(flag) == flag # Undef

\* the runs show the decisions get and set: no run reads first exactly when
\* get is bypassed, and a run that reached the logic sets exactly when set is
\* not bypassed
RunsShow(get, set) ==
  \A i \in 1..Len(pipes) :
    /\ (pipes[i].firstGet = NA) <=> get
    /\ pipes[i].invoked => ((pipes[i].wrote = NA) <=> set)

\* C24 Environment bypass precedence (as amended): the default get-bypass
\* (and likewise set-bypass) decision equals the operation-specific flag
\* compared with 'true' whenever that flag is set to a non-empty string,
\* regardless of the general flag; otherwise it equals the general flag
\* compared with 'true' when that is set to a non-empty string; it is false
\* otherwise, so when neither flag is set.  The calls of a wrapper without a
\* bypass option read and set accordingly.
C24_EnvironmentBypassPrecedence ==
  LET get == Precedence(Truthy, cfg.env.CACHE_BYPASS_GET, cfg.env.CACHE_BYPASS)
      set == Precedence(Truthy, cfg.env.CACHE_BYPASS_SET, cfg.env.CACHE_BYPASS)
  IN  /\ defaultShouldBypassGetMethod = get
      /\ defaultShouldBypassSetMethod = set
      /\ RunsShow(get, set)
      /\ (~IsSet(cfg.env.CACHE_BYPASS_GET) /\ ~IsSet(cfg.env.CACHE_BYPASS)) => ~get
      /\ (~IsSet(cfg.env.CACHE_BYPASS_SET) /\ ~IsSet(cfg.env.CACHE_BYPASS)) => ~set

\* C24 as stated: the operation-specific flag decides whenever it is set.
C24_AsStated ==
  RunsShow(Precedence(IsSet, cfg.env.CACHE_BYPASS_GET, cfg.env.CACHE_BYPASS),
           Precedence(IsSet, cfg.env.CACHE_BYPASS_SET, cfg.env.CACHE_BYPASS))

\* CACHE_BYPASS_GET=false and CACHE_BYPASS_SET=true over CACHE_BYPASS=true: a call read the populated entry and did not run the logic (get not
\* bypassed although the general flag says so), and a call for the other
\* input ran the logic and did not set
C24_Witness ==
  /\ cfg.env.CACHE_BYPASS_GET = "false" /\ cfg.env.CACHE_BYPASS_SET = "true"
  /\ cfg.env.CACHE_BYPASS = "true"
  /\ \E i, j \in 1..Len(pipes) :
       /\ Hit(i) /\ ~pipes[i].invoked
       /\ pipes[j].firstGet = Undef /\ pipes[j].invoked /\ pipes[j].wrote = NA
       /\ pipes[j].pc = "resolved"

(***************************************************************************)
(* The default key serializer and the arguments of a call.                 *)
(***************************************************************************)
\* the runs of calls that were issued after the call of run i had settled
RunsAfter(i) ==
  {j \in 1..Len(pipes) :
     \E c, d \in 1..Len(calls) :
       calls[c].pipe = i /\ calls[d].pipe = j /\ calls[c].state = "settled" /\ c \in calls[d].prior}

\* run i is the only one that has set the entry of its key, and no update has
OnlyWriter(i) ==
  /\ \A j \in 1..Len(pipes) : (j # i /\ pipes[j].key = pipes[i].key) => pipes[j].wrote = NA
  /\ \A j \in 1..Len(ops) : ops[j].key # pipes[i].key

\* run j has the answer of its first get
HasRead(j) == pipes[j].firstGet # NA

\* run j was a hit on what run i had set
HitOnRun(j, i) == Hit(j) /\ pipes[j].firstGet = pipes[i].wrote /\ ~pipes[j].invoked

RunsOf(key) == {calls[c].pipe : c \in CallsOf(key)}

\* the wrapper instances the calls of the key were made through
InstancesOf(key) == {calls[c].instance : c \in CallsOf(key)}

\* C27 Injected deduplication cache: with several asynchronous wrappers
\* constructed over one logic and one cache whose get suspends, calls with
\* the same key that were all issued while none of them had settled share one
\* run, whatever wrapper each was made through, when the caller gave the
\* wrappers one deduplication cache: the logic is invoked at most once for the
\* key.  When each wrapper creates its own, calls made through different
\* wrappers never share a run (nor an entry of a deduplication cache), and
\* such calls made through one wrapper share one.
C27_InjectedDeduplicationCache ==
  (GetSuspends /\ DeduplicationOn) =>
    /\ cfg.deduplication = "injected" =>
         \A key \in AllKeys :
           Concurrent(key) =>
             /\ Cardinality(RunsOf(key)) <= 1
             /\ Cardinality(LogicInvocations(key)) <= 1
    /\ cfg.deduplication = "own" =>
         /\ \A c, d \in 1..Len(calls) :
              calls[c].instance # calls[d].instance => calls[c].pipe # calls[d].pipe
         /\ \A key \in AllKeys :
              Concurrent(key) =>
                \A c, d \in CallsOf(key) :
                  calls[c].instance = calls[d].instance => calls[c].pipe = calls[d].pipe
         /\ \A cache \in Instances, key \in AllKeys :
              dedup[Entry(cache, key)] # 0 =>
                \A c \in 1..Len(calls) :
                  calls[c].pipe = dedup[Entry(cache, key)] => calls[c].instance = cache

\* calls for one input made together through different wrappers that were
\* given one deduplication cache have all resolved to the number that one run
\* of the logic returned
C27_Witness ==
  /\ cfg.deduplication = "injected"
  /\ \E key \in AllKeys :
       /\ Concurrent(key)
       /\ Cardinality(InstancesOf(key)) >= 2
       /\ Cardinality(CallsOf(key)) >= 3
       /\ \A c \in CallsOf(key) : CallSettled(c) /\ CallResult(c) = Random(1)
       /\ Cardinality(LogicInvocations(key)) = 1

\* a key serializer was given to the wrapper
CustomKey == cfg.keySerde # "default"

\* C29 Deduplication is keyed like the primary cache: with a key serializer
\* configured, over a cache whose get suspends, the entries of the
\* deduplication cache are under the keys of that serializer and hold a run
\* of that key (the default serializer gives none of them); calls with equal
\* keys that were all issued while none of them had settled share one run,
\* also when their inputs differ; and calls with different keys never share
\* a run.
C29_DeduplicationKeyedLikePrimary ==
  (CustomKey /\ GetSuspends /\ DeduplicationOn) =>
    /\ \A k \in Entries :
         dedup[k] # 0 => (k \in AllKeys /\ pipes[dedup[k]].key = k)
    /\ \A c \in 1..Len(calls) :
         /\ calls[c].key = serializeKey(calls[c].args.input, calls[c].args.context)
         /\ CallPipe(c).key = calls[c].key
    /\ \A key \in AllKeys :
         Concurrent(key) =>
           /\ Cardinality(RunsOf(key)) <= 1
           /\ Cardinality(LogicInvocations(key)) <= 1
    /\ \A c, d \in 1..Len(calls) :
         calls[c].key # calls[d].key => calls[c].pipe # calls[d].pipe

\* calls with different inputs and one key, made together, have all resolved
\* to the number that one run of the logic returned
C29_Witness ==
  /\ CustomKey
  /\ \E key \in AllKeys :
       /\ Concurrent(key)
       /\ Cardinality({calls[c].args.input : c \in CallsOf(key)}) >= 2
       /\ \A c \in CallsOf(key) : CallSettled(c) /\ CallResult(c) = Random(1)
       /\ Cardinality(LogicInvocations(key)) = 1

(***************************************************************************)
(* Hits, and promises in the synchronous wrapper.                          *)
(***************************************************************************)
\* C30 A cache hit has no side effect: with either wrapper, a run whose first
\* get returned a value that is not undefined returns deserialize(that value)
\* and does nothing else: the logic is not invoked, nothing is set, nothing is
\* read a second time and no warning is logged; until it has returned it waits
\* for nothing.
C30_HitHasNoSideEffect ==
  \A i \in 1..Len(pipes) :
    Hit(i) =>
      /\ pipes[i].pc = "resolved"
      /\ pipes[i].result = deserializeValue(pipes[i].firstGet)
      /\ ~pipes[i].invoked /\ pipes[i].output = NA
      /\ pipes[i].wrote = NA /\ pipes[i].reget = NA /\ ~pipes[i].warned

\* a call of the asynchronous wrapper was a hit on what an earlier run had
\* written, and the entry is what that run wrote
C30_Witness ==
  \E i, j \in 1..Len(pipes) :
    /\ cfg.wrapper = "async"
    /\ i < j /\ pipes[i].key = pipes[j].key
    /\ pipes[i].wrote \notin {NA, Undef}
    /\ Hit(j) /\ pipes[j].firstGet = pipes[i].wrote
    /\ pipes[j].pc = "resolved"
    /\ store[pipes[j].key] = pipes[i].wrote

\* the logic of run i returned a promise
ReturnedPromise(i) == pipes[i].invoked /\ pipes[i].output \in Promises

\* C28 Synchronous wrapper over promise-returning logic: with the default
\* value serde, the promise the logic returned is what the run sets and what
\* the call returns (the same object), whether it later resolves or rejects;
\* a later call with the same input, made while the promise is pending or
\* after, and with the entry not removed by another party, reads that promise,
\* returns the identical object and does not invoke the logic, so the logic
\* is invoked once for the input.
C28_PromiseIsWhatIsStored ==
  (cfg.wrapper = "sync" /\ cfg.serde = "noOp" /\ cfg.env = NoEnv) =>
    \A i \in 1..Len(pipes) :
      ReturnedPromise(i) =>
        /\ pipes[i].wrote = pipes[i].output
        /\ pipes[i].reget = pipes[i].output
        /\ pipes[i].pc = "resolved" /\ pipes[i].result = pipes[i].output
        /\ pipes[i].key \notin evicted.ever =>
             /\ store[pipes[i].key] = pipes[i].output
             /\ \A j \in (i + 1)..Len(pipes) :
                  pipes[j].key = pipes[i].key =>
                    /\ pipes[j].firstGet = pipes[i].output
                    /\ ~pipes[j].invoked
                    /\ pipes[j].result = pipes[i].output

\* two calls with the same input, for which the logic was invoked once and
\* returned a promise that resolves: both returned that promise
C28_Witness ==
  /\ cfg.wrapper = "sync"
  /\ \E i, j \in 1..Len(pipes) :
       /\ i < j /\ pipes[i].args = pipes[j].args
       /\ pipes[i].output = PromiseResolved(i)
       /\ pipes[i].result = PromiseResolved(i) /\ pipes[j].result = PromiseResolved(i)
       /\ ~pipes[j].invoked
       /\ Cardinality({k \in 1..Len(pipes) : pipes[k].key = pipes[i].key /\ pipes[k].invoked}) = 1

(***************************************************************************)
(* The order of the operations of a run.                                   *)
(***************************************************************************)
\* what a miss does, in order: each call, and the settling of what it called
MissOrder ==
  <<"get", "get:settled", "logic", "logic:settled", "set", "set:settled",
    "get", "get:settled">>

IsPrefix(s, t) == Len(s) <= Len(t) /\ s = SubSeq(t, 1, Len(s))

\* the run was a miss, its logic returned an output that is not undefined and
\* it has returned
CompletedMiss(i) ==
  /\ pipes[i].firstGet = Undef
  /\ pipes[i].output \notin {NA, Undef, Err}
  /\ pipes[i].pc = "resolved"

\* C31 Miss path ordering: with no bypass, what a run of either wrapper has
\* done is at every moment a beginning of get(key), logic(input),
\* set(key, serialize(output)), get(key), each started only once the one
\* before it has settled; a miss whose output is not undefined has, when it
\* returns, done exactly these four, once each and in this order, and its
\* set was given the serialized output of the logic.
C31_MissPathOrdering ==
  NoBypass =>
    \A i \in 1..Len(pipes) :
      /\ IsPrefix(pipes[i].trace, MissOrder)
      /\ pipes[i].wrote # NA =>
           (Len(pipes[i].trace) >= 5 /\ pipes[i].wrote = serializeValue(pipes[i].output))
      /\ pipes[i].output # NA => Len(pipes[i].trace) >= 4
      /\ pipes[i].reget # NA => Len(pipes[i].trace) = 8
      /\ CompletedMiss(i) => pipes[i].trace = MissOrder

\* a miss of the asynchronous wrapper over a cache that answers after I/O has
\* returned what it read back, having done the four operations in order
C31_Witness ==
  \E i \in 1..Len(pipes) :
    /\ GetSuspends /\ NoBypass
    /\ CompletedMiss(i)
    /\ pipes[i].trace = MissOrder
    /\ pipes[i].result = deserializeValue(pipes[i].reget)

(***************************************************************************)
(* The bypass option and the defaults of its predicates.                   *)
(***************************************************************************)
\* the caller gave a bypass option without this predicate
NotSupplied(predicate) == cfg.bypass.given /\ predicate \notin cfg.bypass.has

\* C32 Bypass defaults per predicate: a predicate the caller's bypass option
\* does not supply decides as the default from the environment does: with
\* only bypass.get supplied, a run that reached the logic and returned has set
\* exactly when the default set-bypass is false; with only bypass.set
\* supplied, a run has read the cache first exactly when the default
\* get-bypass is false.
C32_BypassDefaultsPerPredicate ==
  \A i \in 1..Len(pipes) :
    /\ (NotSupplied("set") /\ pipes[i].invoked /\ pipes[i].pc = "resolved") =>
         ((pipes[i].wrote = NA) <=> defaultShouldBypassSetMethod)
    /\ (NotSupplied("get") /\ Settled(pipes[i])) =>
         ((pipes[i].firstGet = NA) <=> defaultShouldBypassGetMethod)

(***************************************************************************)
(* The onSet hook.                                                         *)
(***************************************************************************)
\* hook.onSet was called once for each cache.set of execute, invalidate and
\* update, with the trigger, the input, the key and the value of that set,
\* and was not called by a run that set nothing
OnSetCalls ==
  /\ \A i \in 1..Len(pipes) :
       pipes[i].onSet =
         IF pipes[i].wrote = NA THEN <<>>
         ELSE <<OnSetArgs("EXECUTE", pipes[i].args, pipes[i].key,
                          <<[output |-> pipes[i].output, cached |-> pipes[i].wrote]>>)>>
  /\ \A j \in 1..Len(ops) :
       ops[j].onSet =
         IF ops[j].wrote = NA THEN <<>>
         ELSE IF ops[j].trigger = "invalidate"
         THEN <<OnSetArgs("INVALIDATE", HookInput(ops[j].target), ops[j].key, <<>>)>>
         ELSE <<OnSetArgs("UPDATE", HookInput(ops[j].target), ops[j].key,
                          <<[output |-> ops[j].newValue, cached |-> ops[j].wrote]>>)>>

\* an execute that set returned the output of the logic, and an invalidate
\* or an update that set resolved
HookLeavesResult ==
  /\ \A i \in 1..Len(pipes) :
       pipes[i].wrote # NA => (pipes[i].pc = "resolved" /\ pipes[i].result = pipes[i].output)
  /\ \A j \in 1..Len(ops) : ops[j].wrote # NA => ops[j].error = NA

\* C33 onSet hook: with a hook given, onSet is called exactly once after each
\* cache write (EXECUTE with the input, the key and { output, cached } after
\* a miss, INVALIDATE with the key and no value, UPDATE with the key and
\* { output, cached }), never on a hit, and what the hook does never changes
\* what the operation returns.
C33_OnSetHook == cfg.hook # Undef => (OnSetCalls /\ HookLeavesResult)

\* the calls of a hook that is given are one for each cache write
OnSetOncePerWrite == cfg.hook # Undef => OnSetCalls

(***************************************************************************)
(* Deduplication and the cache found for each call.                        *)
(***************************************************************************)
\* C34 Deduplication respects the resolved cache: with the cache taken from
\* the input of each call, a call that has returned a value was served by a
\* run over the cache found for that call's own input, also when a
\* concurrent call with the same key found another cache.
C34_DeduplicationRespectsResolvedCache ==
  cfg.choice = "resolver" =>
    \A c \in 1..Len(calls) :
      (calls[c].state = "settled" /\ pipes[calls[c].pipe].pc = "resolved") =>
        getCacheFromCacheChoice(calls[c].args) =
          getCacheFromCacheChoice(pipes[calls[c].pipe].args)

(***************************************************************************)
(* Deduplication under bypass.                                             *)
(***************************************************************************)
\* calls of one key, all issued while none of them had settled, invoked the
\* logic at most once
OneInvocation(key) == Concurrent(key) => Cardinality(LogicInvocations(key)) <= 1

\* C35 Deduplication is independent of bypass: concurrent calls of the
\* asynchronous wrapper with the same key invoke the logic once, whether or
\* not a get-bypass or a set-bypass of the primary cache is active, by the
\* predicates of the caller or by the defaults from the environment.
C35_DeduplicationIndependentOfBypass ==
  cfg.wrapper = "async" => \A key \in AllKeys : OneInvocation(key)

\* with no bypass flag in the environment, the bypass predicates of the
\* caller leave the deduplication as it is
DeduplicationUnderBypassOption ==
  (cfg.wrapper = "async" /\ DeduplicationOn) => \A key \in AllKeys : OneInvocation(key)

(***************************************************************************)
(* Invalidate and update of withExtendableCachingAsync among calls and     *)
(* operations in flight.                                                   *)
(***************************************************************************)
\* the invalidate j was done while a call of its key was in flight
DoneInFlight(j) ==
  ops[j].trigger = "invalidate" /\ ops[j].pc = "done" /\ ops[j].inFlight

\* C36 Invalidate wins over an in-flight execute: when an invalidate was done
\* while an execute of its key was in flight, the key holds no entry once
\* both are done (and no later call or operation has run), and every call
\* made after the invalidate was done is served by a run that starts after
\* it and invokes the logic.
C36_InvalidateWinsOverInFlightExecute ==
  \A j \in 1..Len(ops) :
    DoneInFlight(j) =>
      /\ (/\ ~InFlight(ops[j].key)
          /\ Len(calls) = ops[j].doneAt
          /\ \A k \in 1..Len(ops) : k # j => ops[k].wrote = NA) =>
           Backends[ops[j].cache][ops[j].key] = Undef
      /\ \A c \in 1..Len(calls) :
           (c > ops[j].doneAt /\ CallSettled(c)) =>
             (CallPipe(c).invoked /\ CallPipe(c).firstGet = Undef)

\* the updates j and k, both by the derivation function and of one entry,
\* ran concurrently (k was called before j was done) and both are done
ConcurrentUpdates(j, k) ==
  /\ j < k /\ k <= ops[j].opsAt
  /\ \A o \in {j, k} :
       ops[o].trigger = "update" /\ ops[o].toValue = Doubler /\ ops[o].pc = "done"
  /\ ops[j].cache = ops[k].cache /\ ops[j].key = ops[k].key

\* C37 Concurrent derived updates are not lost: when two updates by a
\* derivation function f ran concurrently on an entry that held v, and
\* nothing else wrote it, the entry holds f(f(v)) once both are done.
C37_ConcurrentDerivedUpdatesNotLost ==
  \A j, k \in 1..Len(ops) :
    (ConcurrentUpdates(j, k) /\ Len(ops) = 2 /\ Len(pipes) = 0) =>
      LET v == ops[j].before[ops[j].cache][ops[j].key]
          fromCachedOutput == IF v # Undef THEN deserializeValue(v) ELSE Undef
      IN  Backends[ops[j].cache][ops[j].key] =
            serializeValue(Times2(Times2(fromCachedOutput)))

(***************************************************************************)
(* The deduplication cache at rest and while a run is pending.             *)
(***************************************************************************)
\* the entry of the deduplication cache that a call reads and sets
EntryOf(c) == Entry(deduplicationCacheOf(calls[c].instance), deduplicationKey(calls[c].args))

\* with no call pending, the deduplication caches hold no entry
EmptyAtQuiescence ==
  (\A c \in 1..Len(calls) : CallSettled(c)) => \A k \in Entries : dedup[k] = 0

\* while a run is pending, the entry of its key is its promise
PendingRunIsStored ==
  \A c \in 1..Len(calls) : ~Settled(CallPipe(c)) => dedup[EntryOf(c)] = calls[c].pipe

\* C38 Deduplication cache is empty at quiescence: whenever no call of the
\* asynchronous wrapper is pending its deduplication cache holds no entry,
\* and while a run for a key is pending the entry stored for that key is the
\* promise of that run.
C38_DeduplicationCacheEmptyAtQuiescence ==
  cfg.wrapper = "async" => (EmptyAtQuiescence /\ PendingRunIsStored)

(***************************************************************************)
(* Every decorated call settles.                                           *)
(***************************************************************************)
\* the calls a load can make
CallNumbers == 1..(MaxCalls + MaxAsyncCalls + MaxBurst)

\* C39 Every decorated call settles: when every microtask runs and every
\* cache.get, cache.set and logic that was called settles, each call of the
\* asynchronous wrapper, one that joined a run in flight too, eventually
\* resolves or rejects, and whenever the deduplication cache holds an entry
\* it eventually holds none.
C39_EveryDecoratedCallSettles ==
  /\ \A c \in CallNumbers :
       (Len(calls) >= c) ~> (IF Len(calls) >= c
                             THEN CallSettled(c) /\ Settled(CallPipe(c)) ELSE FALSE)
  /\ (\E k \in Entries : dedup[k] # 0) ~> (\A k \in Entries : dedup[k] = 0)

\* a call that joined a run in flight has settled with the rejection of that
\* run, and the entry of its key is removed
C39_Witness ==
  \E c \in 1..Len(calls) :
    /\ cfg.wrapper = "async"
    /\ c > 1 /\ calls[c].pipe = calls[1].pipe
    /\ CallSettled(c) /\ CallPipe(c).pc = "rejected"
    /\ dedup[EntryOf(c)] = 0

(***************************************************************************)
(* A logic that returns undefined.                                         *)
(***************************************************************************)
\* the step in which a run whose logic returned undefined sets leaves the
\* entry of its key as it was, and the run returns undefined
UndefinedOutputStep ==
  \A i \in 1..Len(pipes') :
    (SetOf(i) /\ pipes'[i].output = Undef) =>
      /\ store'[pipes'[i].key] = store[pipes'[i].key]
      /\ pipes'[i].pc = "resolved" => pipes'[i].result = Undef

\* C40 An undefined output leaves the stored entry unchanged: when a run
\* reaches the logic (under get-bypass while a value is cached for the key,
\* for example) and the logic returns undefined, the call returns undefined
\* and the entry stored under the key is after the call what it was before.
C40_UndefinedOutputLeavesEntry == [][UndefinedOutputStep]_vars
====
